---- MODULE Spec2Model ----
(***************************************************************************)
(* Incremental synchronization engine of the manga scraper: chapter        *)
(* listing and identifier normalization, the catalog diff, the chapter     *)
(* upsert and the manga statistics, the retry loop of the workflow         *)
(* scraper, the ledger-driven uploader, the runs of the auto updater and   *)
(* of the add-manga scraper, two upserts of one chapter interleaved, and   *)
(* the start of each script with auto_updater.main over the mangas.        *)
(***************************************************************************)
EXTENDS Integers, Sequences, FiniteSets, TLC

\* ------------------------------------------------------------------------
\* Bounds of the model
\* ------------------------------------------------------------------------

\* Number of chapter links on a source page.
MaxLinks == 3

\* ------------------------------------------------------------------------
\* Python numbers and the parsing of chapter tokens
\* ------------------------------------------------------------------------

Digits == {"0", "1", "2", "3", "4", "5", "6", "7", "8", "9"}

DigitVal(c) ==
    CASE c = "0" -> 0 [] c = "1" -> 1 [] c = "2" -> 2 [] c = "3" -> 3
      [] c = "4" -> 4 [] c = "5" -> 5 [] c = "6" -> 6 [] c = "7" -> 7
      [] c = "8" -> 8 [] c = "9" -> 9

RECURSIVE Pow10(_)
Pow10(n) == IF n = 0 THEN 1 ELSE 10 * Pow10(n - 1)

\* Value of a run of decimal digits (0 for the empty run).
RECURSIVE IntOfDigits(_)
IntOfDigits(s) ==
    IF s = <<>> THEN 0
    ELSE 10 * IntOfDigits(SubSeq(s, 1, Len(s) - 1)) + DigitVal(s[Len(s)])

\* A decimal num/den (den a power of ten) without trailing zeros in the
\* fraction: two decimals are numerically equal iff their canonical forms
\* are the same record.
RECURSIVE Canon(_, _)
Canon(num, den) ==
    IF den > 1 /\ num % 10 = 0 THEN Canon(num \div 10, den \div 10)
    ELSE [num |-> num, den |-> den]

\* A Python number: its type and its exact decimal value.
PyInt(n) == [type |-> "int", num |-> n, den |-> 1]
MkFloat(num, den) ==
    LET c == Canon(num, den) IN [type |-> "float", num |-> c.num, den |-> c.den]

\* Python's ==, < and <= on numbers: by value, whatever the types.
NumEq(a, b) == a.num * b.den = b.num * a.den
NumLt(a, b) == a.num * b.den < b.num * a.den
NumLe(a, b) == a.num * b.den <= b.num * a.den

\* float(x) of a number, float.is_integer() and int(x).
ToFloat(x) == MkFloat(x.num, x.den)
is_integer(x) == x.num % x.den = 0
ToInt(x) == PyInt(x.num \div x.den)

\* Longest prefix of s made of characters of cs: what a greedy character
\* class matches right after 'chapter-'.
RECURSIVE MatchPrefix(_, _)
MatchPrefix(s, cs) ==
    IF s = <<>> \/ s[1] \notin cs THEN <<>>
    ELSE <<s[1]>> \o MatchPrefix(Tail(s), cs)

DotPositions(s) == {i \in DOMAIN s : s[i] = "."}

\* float(str) of a token of digits and dots raises ValueError unless the
\* token has at least one digit and at most one dot.
PyFloatOk(s) ==
    /\ Cardinality(DotPositions(s)) <= 1
    /\ \E i \in DOMAIN s : s[i] \in Digits

PyFloat(s) ==
    IF DotPositions(s) = {} THEN MkFloat(IntOfDigits(s), 1)
    ELSE LET d == CHOOSE i \in DotPositions(s) : TRUE
             ip == SubSeq(s, 1, d - 1)
             fp == SubSeq(s, d + 1, Len(s))
         IN MkFloat(IntOfDigits(ip) * Pow10(Len(fp)) + IntOfDigits(fp),
                    Pow10(Len(fp)))

\* Ascending list of a finite set of numbers: sorted().
RECURSIVE sorted(_)
sorted(S) ==
    IF S = {} THEN <<>>
    ELSE LET m == CHOOSE x \in S : \A y \in S : NumLe(x, y)
         IN <<m>> \o sorted(S \ {m})

\* The sequences over S of length at most n.
RECURSIVE SeqsUpTo(_, _)
SeqsUpTo(S, n) ==
    IF n = 0 THEN {<<>>}
    ELSE LET shorter == SeqsUpTo(S, n - 1)
         IN shorter \cup {Append(q, x) : q \in {r \in shorter : Len(r) = n - 1}, x \in S}

\* ------------------------------------------------------------------------
\* State
\* ------------------------------------------------------------------------

VARIABLES
    \* The persistence store (Supabase tables).
    chapters,              \* rows [id, manga_id, chapter_number, title, total_panels]
    panels,                \* rows [chapter_id, panel_number, image_url]
    mangas,                \* manga_id -> [total_chapters, total_panels]
    \* The source page and the listing/diff of one series.
    page,                  \* the hrefs of the page's links: what follows 'chapter-'
    FORCE_UPDATE,          \* auto_updater's module flag
    lister,                \* which program listed the page
    chapter_links,         \* the list built by the listing loop, before dedup
    available_chapters,    \* auto_updater: dict number -> item
    all_chapters,          \* workflow / uploader: sorted list of items
    existing_chapters,     \* auto_updater: set of floats read from the store
    missing_chapter_list,  \* auto_updater: the work list
    dpc,                   \* position in the listing/diff sequence
    \* The last store operation called and what it returned.
    last,
    \* One invocation of scraper_workflow.scrape_manga_to_supabase.
    wpc,                   \* position: start, first_pass, retry, done
    wf_chapters,           \* its local list chapters, after the range filter
    pos,                   \* position of the chapter the running loop processes next
    success_count,
    failed_chapters,
    still_failed,
    retry_count,
    wf_result,             \* how the invocation ended
    attempts,              \* per chapter of wf_chapters: how often it was attempted
    saved_ever,            \* the chapters of wf_chapters saved in some attempt
    interrupted,           \* a KeyboardInterrupt was received
    wf_args,               \* OPERATION and the range main passed
    \* scrape_new_chapters: the ledger file, the image host and the runs.
    ledger,                \* rows of the metadata CSV, cells as written (str)
    cloud,                 \* uploaded assets [manga_slug, chapter, idx]
    spc,                   \* position: start, loop, done
    new_chapters,          \* scrape_new_chapters_only: its work list
    spos,                  \* position of the chapter its loop processes next
    sm_success_count,      \* its local success_count
    sm_failed_chapters,    \* its local failed_chapters
    sm_result,             \* what it returned
    sm_last,               \* the last chapter sync: its inputs and what it returned
    runs,                  \* invocations of the script so far
    \* auto_updater.process_manga for one manga (with dpc and the diff lists).
    pm_pos,                \* position of the chapter its loop processes next
    pm_success_count,      \* its local success_count
    pm_failed_count,       \* its local failed_count
    pm_result,             \* the status (and reason) of the dict it returned
    pm_runs,               \* invocations of auto_updater so far
    \* add_manga_scraper.main from the chapter list on.
    apc,                   \* position: start, loop, done
    am_chapters,           \* its local chapters
    am_pos,                \* position of the chapter its loop processes next
    am_success_count,      \* its local success_count
    am_error_count,        \* its local error_count
    \* Two invocations of save_chapter_to_supabase running concurrently.
    rpc,                   \* per invocation: the store call it makes next
    rloc,                  \* per invocation: its locals existing and chapter_id
    \* The exit status of the process (NotExited while it runs).
    exit_code,
    \* History: the chapters attempted and failed in the rounds of the
    \* workflow, and the last attempt of a chapter by any program.
    round_log,
    attempt,
    \* The start of a process and auto_updater.main.
    mpc,                   \* position: config, the steps of main, exited
    environ,               \* the program started and its environment variables
    effects,               \* store writes and source fetches performed so far
    au_mangas,             \* main's local mangas
    au_results,            \* main's local results
    au_summary             \* the counts main's summary logs

storeVars == <<chapters, panels, mangas>>
diffVars == <<page, FORCE_UPDATE, lister, chapter_links, available_chapters,
              all_chapters, existing_chapters, missing_chapter_list, dpc>>
wfVars == <<wpc, wf_chapters, pos, success_count, failed_chapters, still_failed,
            retry_count, wf_result, attempts, saved_ever, interrupted, wf_args>>
smVars == <<ledger, cloud, spc, new_chapters, spos,
            sm_success_count, sm_failed_chapters, sm_result, sm_last, runs>>
pmVars == <<pm_pos, pm_success_count, pm_failed_count, pm_result, pm_runs>>
amVars == <<apc, am_chapters, am_pos, am_success_count, am_error_count>>
raceVars == <<rpc, rloc>>
mainVars == <<mpc, environ, effects, au_mangas, au_results, au_summary>>
vars == <<storeVars, diffVars, last, wfVars, smVars, pmVars, amVars, mainVars, raceVars,
          exit_code, round_log, attempt>>

\* The manga whose series is synchronized, and another one sharing the store.
MangaIds == {1, 2}
TheManga == 1

\* ------------------------------------------------------------------------
\* Listing the chapters of a source page
\* ------------------------------------------------------------------------

\* Hrefs a page may hold, as the characters after '/chapter-'.
RawHrefs ==
    { <<"1">>, <<"1", ".", "0">>, <<"1", ".", "5">>, <<"4", "/">>, <<".">>, <<"x">> }

\* re.search(r'chapter-([\d.]+)', href).group(1); <<>> when there is no match.
MatchDigitsDots(href) == MatchPrefix(href, Digits \cup {"."})

\* re.search(r'chapter-(\d+)', href).group(1); <<>> when there is no match.
MatchDigits(href) == MatchPrefix(href, Digits)

\* A listed chapter; the text of the i-th link of the page is its position.
Item(href, number, i) == [url |-> href, number |-> number, text |-> ToString(i)]

\* The loop of auto_updater.get_available_chapters_from_source and of
\* scraper_workflow.get_all_chapters: float() of the matched token, a token
\* that raises ValueError is skipped.
RECURSIVE float_chapter_links(_, _)
float_chapter_links(links, i) ==
    IF i > Len(links) THEN <<>>
    ELSE LET tok == MatchDigitsDots(links[i])
         IN (IF tok # <<>> /\ PyFloatOk(tok)
             THEN <<Item(links[i], PyFloat(tok), i)>>
             ELSE <<>>) \o float_chapter_links(links, i + 1)

\* The loop of scrape_new_chapters.get_all_chapters: int() of the digits
\* that follow 'chapter-'.
RECURSIVE int_chapter_links(_, _)
int_chapter_links(links, i) ==
    IF i > Len(links) THEN <<>>
    ELSE LET tok == MatchDigits(links[i])
         IN (IF tok # <<>>
             THEN <<Item(links[i], PyInt(IntOfDigits(tok)), i)>>
             ELSE <<>>) \o int_chapter_links(links, i + 1)

\* {ch['number']: ch for ch in chapter_links}: the last item seen wins.
unique_chapters(cl) ==
    [n \in {cl[i].number : i \in DOMAIN cl} |->
        cl[CHOOSE i \in DOMAIN cl :
              /\ cl[i].number = n
              /\ \A j \in DOMAIN cl : cl[j].number = n => j <= i]]

\* sorted(unique_chapters.values(), key=lambda x: x['number'])
sorted_values(d) == [i \in DOMAIN sorted(DOMAIN d) |-> d[sorted(DOMAIN d)[i]]]

\* auto_updater.get_available_chapters_from_source; {} when the fetch fails.
get_available_chapters_from_source(links, fetch_ok) ==
    IF fetch_ok THEN unique_chapters(float_chapter_links(links, 1)) ELSE <<>>

\* scraper_workflow.get_all_chapters; [] when the fetch fails.
workflow_get_all_chapters(links, fetch_ok) ==
    IF fetch_ok THEN sorted_values(unique_chapters(float_chapter_links(links, 1)))
    ELSE <<>>

\* scrape_new_chapters.get_all_chapters; [] when the fetch fails.
smart_get_all_chapters(links, fetch_ok) ==
    IF fetch_ok THEN sorted_values(unique_chapters(int_chapter_links(links, 1)))
    ELSE <<>>

\* ------------------------------------------------------------------------
\* auto_updater: existing chapters and the catalog diff
\* ------------------------------------------------------------------------

SeqRange(s) == {s[i] : i \in DOMAIN s}

\* auto_updater.get_existing_chapters_from_supabase; set() when the read fails.
get_existing_chapters_from_supabase(table, manga_id, read_ok) ==
    IF read_ok
    THEN {ToFloat(r.chapter_number) : r \in {x \in SeqRange(table) : x.manga_id = manga_id}}
    ELSE {}

\* find_missing_chapters without the ascending sort.
find_missing_chapters_unsorted(existing, available, force) ==
    LET available_nums == DOMAIN available
        missing == IF force THEN available_nums ELSE available_nums \ existing
        RECURSIVE AnyOrder(_)
        AnyOrder(S) == IF S = {} THEN <<>>
                       ELSE LET m == CHOOSE x \in S : \A y \in S : NumLe(y, x)
                            IN <<available[m]>> \o AnyOrder(S \ {m})
    IN AnyOrder(missing)

\* find_missing_chapters that ignores FORCE_UPDATE.
find_missing_chapters_unforced(existing, available, force) ==
    LET missing == DOMAIN available \ existing
    IN [i \in DOMAIN sorted(missing) |-> available[sorted(missing)[i]]]

\* auto_updater.find_missing_chapters
find_missing_chapters(existing, available, force) ==
    LET available_nums == DOMAIN available
        missing == IF force THEN available_nums ELSE available_nums \ existing
    IN [i \in DOMAIN sorted(missing) |-> available[sorted(missing)[i]]]

\* ------------------------------------------------------------------------
\* The persistence store and the chapter upsert
\* ------------------------------------------------------------------------

\* The three tables as one value. Row ids are positions in the chapters
\* table: no operation of the programs deletes a chapter row.
Db == [chapters |-> chapters, panels |-> panels, mangas |-> mangas]

\* A select without the manga_id filter.
SelectChapter_anyManga(db, manga_id, number) ==
    LET Match(r) == NumEq(r.chapter_number, number)
    IN SelectSeq(db.chapters, Match)

\* table('chapters').select('id').eq('manga_id', m).eq('chapter_number', n):
\* the store compares chapter numbers by value.
SelectChapter(db, manga_id, number) ==
    LET Match(r) == r.manga_id = manga_id /\ NumEq(r.chapter_number, number)
    IN SelectSeq(db.chapters, Match)

\* An upsert that leaves the chapter's old panels in place.
DeletePanels_skipped(db, chapter_id) == db

\* table('panels').delete().eq('chapter_id', id)
DeletePanels(db, chapter_id) ==
    LET Keep(p) == p.chapter_id # chapter_id
    IN [db EXCEPT !.panels = SelectSeq(db.panels, Keep)]

\* table('chapters').update({title, total_panels}).eq('id', id)
UpdateChapter(db, chapter_id, title, total) ==
    [db EXCEPT !.chapters =
        [i \in DOMAIN db.chapters |->
            IF db.chapters[i].id = chapter_id
            THEN [db.chapters[i] EXCEPT !.title = title, !.total_panels = total]
            ELSE db.chapters[i]]]

\* An upsert that takes the insert branch whatever the select returned.
RowFound_never(existing) == FALSE

\* if existing.data:
RowFound(existing) == existing # <<>>

\* table('chapters').insert({...}); the new row's id is result.data[0]['id'].
NewChapterId(db) == Len(db.chapters) + 1

\* An insert under a unique constraint on (manga_id, chapter_number) that
\* leaves the table alone when the key is taken.
InsertChapter_unique(db, manga_id, number, title, total) ==
    IF SelectChapter(db, manga_id, number) # <<>> THEN db
    ELSE [db EXCEPT !.chapters = Append(db.chapters,
            [id |-> Len(db.chapters) + 1, manga_id |-> manga_id,
             chapter_number |-> number, title |-> title, total_panels |-> total])]

InsertChapter(db, manga_id, number, title, total) ==
    [db EXCEPT !.chapters = Append(db.chapters,
        [id |-> NewChapterId(db), manga_id |-> manga_id, chapter_number |-> number,
         title |-> title, total_panels |-> total])]

PanelRow(chapter_id, idx, url) ==
    [chapter_id |-> chapter_id, panel_number |-> idx, image_url |-> url]

\* table('panels').insert(panels_data): one statement for the whole batch,
\* numbered by enumerate(image_urls, 1).
InsertPanels(db, chapter_id, image_urls) ==
    [db EXCEPT !.panels =
        db.panels \o [i \in DOMAIN image_urls |-> PanelRow(chapter_id, i, image_urls[i])]]

RECURSIVE SumTotalPanels(_)
SumTotalPanels(rows) ==
    IF rows = <<>> THEN 0 ELSE rows[1].total_panels + SumTotalPanels(Tail(rows))

ChaptersOf(db, manga_id) ==
    LET Mine(r) == r.manga_id = manga_id IN SelectSeq(db.chapters, Mine)

\* update_manga_stats without the manga_id filter of its select.
update_manga_stats_unfiltered(db, manga_id, stats_fail) ==
    IF stats_fail # "none" THEN [db |-> db, ok |-> FALSE]
    ELSE [db |-> [db EXCEPT !.mangas[manga_id] =
                    [total_chapters |-> Len(db.chapters),
                     total_panels |-> SumTotalPanels(db.chapters)]],
          ok |-> TRUE]

\* update_manga_stats of scraper_workflow and of auto_updater (the same
\* code): the select or the update may raise, which is caught and logged.
update_manga_stats(db, manga_id, stats_fail) ==
    IF stats_fail # "none" THEN [db |-> db, ok |-> FALSE]
    ELSE [db |-> [db EXCEPT !.mangas[manga_id] =
                    [total_chapters |-> Len(ChaptersOf(db, manga_id)),
                     total_panels |-> SumTotalPanels(ChaptersOf(db, manga_id))]],
          ok |-> TRUE]

\* A chapter_number argument: a Python str, or a number.
PyStr(chars) == [type |-> "str", chars |-> chars]

\* The head of both save_chapter_to_supabase: a str goes through float(),
\* a float without fractional part becomes an int.
NormalizeOk(chapter_number) ==
    chapter_number.type = "str" => PyFloatOk(chapter_number.chars)

NormalizeChapterNumber(chapter_number) ==
    LET n == IF chapter_number.type = "str"
             THEN PyFloat(chapter_number.chars) ELSE chapter_number
    IN IF n.type = "float" /\ is_integer(n) THEN ToInt(n) ELSE n

\* What an upsert returns, with the store it leaves: chapter_id 0 is None.
\* stats is the outcome of the update_manga_stats call made by the upsert.
UpsertResult(db, chapter_id, saved, stats) ==
    [db |-> db, chapter_id |-> chapter_id, saved |-> saved, stats |-> stats]

UpsertFailed(db) == UpsertResult(db, 0, FALSE, "not run")

\* Which store call of an upsert raises.
SaveFailures == {"none", "select", "delete", "update", "insert", "panels"}
\* update_manga_stats: whether its select or its update raises (either way
\* nothing is written and the exception is logged).
StatsFailures == {"none", "raise"}

\* The common body of scraper_workflow.save_chapter_to_supabase and
\* auto_updater.save_chapter_to_supabase. with_stats: the workflow's version
\* ends with update_manga_stats, the updater's does not.
SaveChapter(db, manga_id, chapter_number, chapter_title, image_urls, fail, stats_fail, with_stats) ==
    LET Finish(d, cid) ==
            IF image_urls # <<>> /\ fail = "panels" THEN UpsertFailed(d)
            ELSE LET d3 == InsertPanels(d, cid, image_urls)
                     st == update_manga_stats(d3, manga_id, stats_fail)
                 IN IF with_stats
                    THEN UpsertResult(st.db, cid, TRUE, IF st.ok THEN "ok" ELSE "failed")
                    ELSE UpsertResult(d3, cid, TRUE, "not run")
    IN IF ~NormalizeOk(chapter_number) \/ fail = "select" THEN UpsertFailed(db)
       ELSE LET num == NormalizeChapterNumber(chapter_number)
                existing == SelectChapter(db, manga_id, num)
            IN IF RowFound(existing)
               THEN LET cid == existing[1].id
                        d1 == DeletePanels(db, cid)
                        d2 == UpdateChapter(d1, cid, chapter_title, Len(image_urls))
                    IN IF fail = "delete" THEN UpsertFailed(db)
                       ELSE IF fail = "update" THEN UpsertFailed(d1)
                       ELSE Finish(d2, cid)
               ELSE IF fail = "insert" THEN UpsertFailed(db)
                    ELSE Finish(InsertChapter(db, manga_id, num, chapter_title,
                                              Len(image_urls)),
                                NewChapterId(db))

\* scraper_workflow.save_chapter_to_supabase
workflow_save_chapter_to_supabase(db, manga_id, chapter_number, chapter_title, image_urls, fail, stats_fail) ==
    SaveChapter(db, manga_id, chapter_number, chapter_title, image_urls,
                fail, stats_fail, TRUE)

\* auto_updater.save_chapter_to_supabase
updater_save_chapter_to_supabase(db, manga_id, chapter_number, chapter_title, image_urls, fail) ==
    SaveChapter(db, manga_id, chapter_number, chapter_title, image_urls,
                fail, "none", FALSE)

\* The per-panel inserts of add_chapter_to_db: an insert that raises is
\* logged and skipped, the numbering goes on.
InsertPanelsEach(db, chapter_id, panel_urls, panel_fail) ==
    LET rows == [i \in DOMAIN panel_urls |-> PanelRow(chapter_id, i, panel_urls[i])]
        Written(p) == p.panel_number \notin panel_fail
    IN [db EXCEPT !.panels = db.panels \o SelectSeq(rows, Written)]

\* add_manga_scraper.add_chapter_to_db: the chapter number is used as given;
\* an existing chapter is updated before its panels are deleted.
add_chapter_to_db(db, manga_id, chapter_number, title, panel_urls, fail, panel_fail) ==
    IF fail = "select" THEN UpsertFailed(db)
    ELSE LET existing == SelectChapter(db, manga_id, chapter_number)
         IN IF RowFound(existing)
            THEN LET cid == existing[1].id
                     d1 == UpdateChapter(db, cid, title, Len(panel_urls))
                     d2 == DeletePanels(d1, cid)
                 IN IF fail = "update" THEN UpsertFailed(db)
                    ELSE IF fail = "delete" THEN UpsertFailed(d1)
                    ELSE UpsertResult(InsertPanelsEach(d2, cid, panel_urls, panel_fail),
                                      cid, TRUE, "not run")
            ELSE IF fail = "insert" THEN UpsertFailed(db)
                 ELSE UpsertResult(
                        InsertPanelsEach(
                            InsertChapter(db, manga_id, chapter_number, title,
                                          Len(panel_urls)),
                            NewChapterId(db), panel_urls, panel_fail),
                        NewChapterId(db), TRUE, "not run")

\* ------------------------------------------------------------------------
\* Specification SpecStore: any sequence of upserts and statistics
\* refreshes on one store, by a single writer
\* ------------------------------------------------------------------------

\* Longest list of image URLs handed to an upsert.
MaxPanels == 3

\* The image URLs a fetch of the chapter page may yield: the page comes in
\* two versions, image i of version v has URL [v, i].
PageVersions == {1, 2}
UrlList(v, n) == [i \in 1..n |-> [v |-> v, i |-> i]]
UrlLists == {UrlList(v, n) : v \in PageVersions, n \in 1..MaxPanels} \cup {<<>>}
\* The link text of the chapter in version v of the source.
TitleOf(v) == IF v = 1 THEN "t1" ELSE "t2"

\* What a listing and a fetch hand to an upsert: title and image URLs.
Scrapes ==
    {[title |-> TitleOf(v), urls |-> UrlList(v, n)] : v \in PageVersions, n \in 1..MaxPanels}
EmptyScrapes == {[title |-> TitleOf(v), urls |-> <<>>] : v \in PageVersions}

\* The store calls an upsert of this chapter makes in the current store,
\* each of which may raise.
CallsMade(number, urls) ==
    IF ~NormalizeOk(number) THEN {}
    ELSE (IF RowFound(SelectChapter(Db, TheManga, NormalizeChapterNumber(number)))
          THEN {"select", "delete", "update"}
          ELSE {"select", "insert"})
         \cup (IF urls # <<>> THEN {"panels"} ELSE {})

\* The chapter the upserts are called for, as the listings produce its
\* number (a float) and, for save_chapter_to_supabase, as a str.
TargetNumber == MkFloat(1, 1)
NumberArgs == {TargetNumber, PyStr(<<"1", ".", "0">>)}

NoOp ==
    [op |-> "none", chapter_number |-> PyInt(0), title |-> "", image_urls |-> <<>>,
     saved |-> FALSE, stats |-> "not run", panel_failed |-> FALSE,
     all_ok |-> FALSE, twice |-> FALSE, shorter |-> FALSE]

\* The record of an upsert call: what it returned and, when every store
\* call of it succeeded, its arguments; twice / shorter compare these with
\* the arguments of the call right before it.
Called(op, number, title, urls, r, panel_failed, all_ok) ==
    LET same == /\ last.op = op /\ last.all_ok /\ all_ok
                /\ last.chapter_number = number /\ last.title = title
    IN [op |-> op,
        chapter_number |-> IF all_ok THEN number ELSE PyInt(0),
        title |-> IF all_ok THEN title ELSE "",
        image_urls |-> IF all_ok THEN urls ELSE <<>>,
        saved |-> r.saved, stats |-> r.stats,
        panel_failed |-> panel_failed, all_ok |-> all_ok,
        twice |-> same /\ last.image_urls = urls,
        shorter |-> same /\ Len(urls) < Len(last.image_urls)]

SetDb(db) ==
    /\ chapters' = db.chapters
    /\ panels' = db.panels
    /\ mangas' = db.mangas

\* A store that already holds chapter 1 of another manga and chapter 2 of
\* this one, each with one panel.
StoreRows ==
    /\ chapters = << [id |-> 1, manga_id |-> 2, chapter_number |-> PyInt(1),
                      title |-> "t1", total_panels |-> 1],
                     [id |-> 2, manga_id |-> TheManga, chapter_number |-> PyInt(2),
                      title |-> "t1", total_panels |-> 1] >>
    /\ panels = << PanelRow(1, 1, UrlList(1, 1)[1]), PanelRow(2, 1, UrlList(1, 1)[1]) >>
    /\ mangas = [m \in MangaIds |-> [total_chapters |-> 1, total_panels |-> 1]]


\* No call made yet: no operation, no range.
NoArgs ==
    [operation |-> "none",
     start_chapter |-> [type |-> "none", num |-> 0, den |-> 1],
     end_chapter |-> [type |-> "none", num |-> 0, den |-> 1]]

WfIdle ==
    /\ wpc = "idle"
    /\ wf_chapters = <<>>
    /\ pos = 1
    /\ success_count = 0
    /\ failed_chapters = <<>>
    /\ still_failed = <<>>
    /\ retry_count = 0
    /\ wf_result = "none"
    /\ attempts = <<>>
    /\ saved_ever = {}
    /\ interrupted = FALSE
    /\ wf_args = NoArgs

\* The value of exit_code while the process has not ended.
NotExited == 0 - 1

\* No round of the workflow logged yet; no attempt of a chapter yet.
NoRounds == <<>>
NoAttempt == [n |-> 0, program |-> "none", fetch |-> "none", recorded |-> FALSE]

ObsIdle ==
    /\ exit_code = NotExited
    /\ round_log = NoRounds
    /\ attempt = NoAttempt

PmIdle ==
    /\ pm_pos = 1
    /\ pm_success_count = 0
    /\ pm_failed_count = 0
    /\ pm_result = "none"
    /\ pm_runs = 0

\* No process start is followed.
NoEnviron == [program |-> "none"]
NoEffects == [writes |-> 0, fetches |-> 0]
NoSummary == [processed |-> 0, up_to_date |-> 0, updated |-> 0, failed |-> 0]

MainIdle ==
    /\ mpc = "idle"
    /\ environ = NoEnviron
    /\ effects = NoEffects
    /\ au_mangas = <<>>
    /\ au_results = <<>>
    /\ au_summary = NoSummary

AmIdle ==
    /\ apc = "idle"
    /\ am_chapters = <<>>
    /\ am_pos = 1
    /\ am_success_count = 0
    /\ am_error_count = 0

RaceIdle ==
    /\ rpc = <<>>
    /\ rloc = <<>>

\* No chapter sync of scrape_new_chapters yet.
NoSync ==
    [chapter |-> PyInt(0), fetched |-> FALSE, imgs |-> 0, supplied |-> 0,
     uploaded |-> 0, panel_count |-> 0, success |-> FALSE, error |-> "",
     expected |-> 0, rows_before |-> 0]

SmIdle ==
    /\ ledger = <<>>
    /\ cloud = {}
    /\ spc = "idle"
    /\ new_chapters = <<>>
    /\ spos = 1
    /\ sm_success_count = 0
    /\ sm_failed_chapters = <<>>
    /\ sm_result = "none"
    /\ sm_last = NoSync
    /\ runs = 0

DiffIdle ==
    /\ page = <<>>
    /\ FORCE_UPDATE = FALSE
    /\ lister = "none"
    /\ chapter_links = <<>>
    /\ available_chapters = <<>>
    /\ all_chapters = <<>>
    /\ existing_chapters = {}
    /\ missing_chapter_list = <<>>
    /\ dpc = "idle"

WorkflowSave ==
    \E number \in NumberArgs, sc \in Scrapes \cup EmptyScrapes :
        \E fail \in CallsMade(number, sc.urls) \cup {"none"} :
            \E stats_fail \in IF fail = "none" THEN StatsFailures ELSE {"none"} :
                \E r \in {workflow_save_chapter_to_supabase(Db, TheManga, number, sc.title,
                                                             sc.urls, fail, stats_fail)} :
                   /\ SetDb(r.db)
                   /\ last' = Called("workflow_save", number, sc.title, sc.urls, r, FALSE,
                                     fail = "none" /\ stats_fail = "none")
                   /\ UNCHANGED <<diffVars, wfVars, smVars, pmVars, amVars, mainVars, raceVars, exit_code,
                               round_log, attempt>>

UpdaterSave ==
    \E number \in NumberArgs, sc \in Scrapes \cup EmptyScrapes :
        \E fail \in CallsMade(number, sc.urls) \cup {"none"} :
            \E r \in {updater_save_chapter_to_supabase(Db, TheManga, number, sc.title,
                                                        sc.urls, fail)} :
               /\ SetDb(r.db)
               /\ last' = Called("updater_save", number, sc.title, sc.urls, r, FALSE,
                                 fail = "none")
               /\ UNCHANGED <<diffVars, wfVars, smVars, pmVars, amVars, mainVars, raceVars, exit_code,
                               round_log, attempt>>

\* add_manga_scraper.main calls add_chapter_to_db only with panels.
AddChapter ==
    \E sc \in Scrapes :
        \E fail \in (CallsMade(TargetNumber, sc.urls) \ {"panels"}) \cup {"none"} :
            \E panel_fail \in IF fail = "none" THEN SUBSET DOMAIN sc.urls ELSE {{}} :
                \E r \in {add_chapter_to_db(Db, TheManga, TargetNumber, sc.title, sc.urls,
                                             fail, panel_fail)} :
                   /\ SetDb(r.db)
                   /\ last' = Called("add_chapter_to_db", TargetNumber, sc.title, sc.urls,
                                     r, r.saved /\ panel_fail # {},
                                     fail = "none" /\ panel_fail = {})
                   /\ UNCHANGED <<diffVars, wfVars, smVars, pmVars, amVars, mainVars, raceVars, exit_code,
                               round_log, attempt>>

\* auto_updater.process_manga calls update_manga_stats once its loop is over.
UpdateStats ==
    \E stats_fail \in StatsFailures :
        \E st \in {update_manga_stats(Db, TheManga, stats_fail)} :
           /\ SetDb(st.db)
           /\ last' = [NoOp EXCEPT !.op = "update_manga_stats",
                                   !.stats = IF st.ok THEN "ok" ELSE "failed"]
           /\ UNCHANGED <<diffVars, wfVars, smVars, pmVars, amVars, mainVars, raceVars, exit_code,
                               round_log, attempt>>

StoreNext == WorkflowSave \/ UpdaterSave \/ AddChapter \/ UpdateStats

StoreInit ==
    StoreRows /\ last = NoOp /\ DiffIdle /\ WfIdle /\ SmIdle /\ PmIdle /\ AmIdle /\ MainIdle /\ RaceIdle /\ ObsIdle

SpecStore == StoreInit /\ [][StoreNext]_vars

\* ------------------------------------------------------------------------
\* Properties of the store operations (SpecStore)
\* ------------------------------------------------------------------------

Upserts == {"workflow_save", "updater_save", "add_chapter_to_db"}

\* The rows of the chapter the upserts are called for, and the panel rows
\* of a chapter row.
TargetRows ==
    {r \in SeqRange(chapters) : r.manga_id = TheManga /\ NumEq(r.chapter_number, TargetNumber)}
PanelIdx(chapter_id) == {i \in DOMAIN panels : panels[i].chapter_id = chapter_id}

\* C5: after two consecutive calls of one upsert with the same manga, chapter
\* number and title, every store call succeeding, the second with the same
\* image URLs or with fewer, the store holds exactly one chapter row for the
\* key and exactly the panels 1..N of the second call, panel i holding the
\* second call's i-th URL.
C5_UpsertTwiceReplaces ==
    (last.twice \/ last.shorter) =>
        /\ Cardinality(TargetRows) = 1
        /\ \A r \in TargetRows :
            /\ Cardinality(PanelIdx(r.id)) = Len(last.image_urls)
            /\ \A n \in DOMAIN last.image_urls :
                \E i \in PanelIdx(r.id) :
                    /\ panels[i].panel_number = n
                    /\ panels[i].image_url = last.image_urls[n]

C5_Witness ==
    /\ last.shorter
    /\ last.op = "workflow_save"
    /\ Len(last.image_urls) >= 2

\* The chapter every upsert of this specification is called for.
IsTarget(r) == r.manga_id = TheManga /\ NumEq(r.chapter_number, TargetNumber)

PanelsOf(table, chapter_id) ==
    SelectSeq(table, LAMBDA p : p.chapter_id = chapter_id)

\* C24: an upsert of one chapter, whichever of its store calls fails,
\* leaves every other chapter row (other numbers of the manga, chapters of
\* other mangas) and the panels of those rows as they were, and no
\* operation removes a chapter row; so chapters the source does not list,
\* for which no upsert is ever called, stay as persisted.
C24_OtherChaptersUntouched ==
    [][\A i \in DOMAIN chapters :
          /\ i \in DOMAIN chapters'
          /\ chapters'[i].id = chapters[i].id
          /\ ~IsTarget(chapters[i]) =>
                /\ chapters'[i] = chapters[i]
                /\ PanelsOf(panels', chapters[i].id) = PanelsOf(panels, chapters[i].id)]_vars

\* The chapter was upserted over its own earlier row, beside the two rows
\* the store started with.
C24_Witness ==
    /\ last.op = "updater_save"
    /\ last.twice
    /\ Len(chapters) = 3
    /\ \A i \in 1..2 : ~IsTarget(chapters[i]) /\ PanelsOf(panels, chapters[i].id) # <<>>

\* C26: with one writer at a time, after any sequence of upserts, each
\* ending normally or at a store call that raised, no two chapter rows
\* have the same manga_id and the same chapter number.
C26_OneRowPerKey ==
    \A i, j \in DOMAIN chapters :
        (chapters[i].manga_id = chapters[j].manga_id
            /\ NumEq(chapters[i].chapter_number, chapters[j].chapter_number)) => i = j

\* An upsert that failed after deleting the panels of the row an earlier
\* upsert had inserted.
C26_Witness ==
    /\ last.op = "workflow_save"
    /\ ~last.saved
    /\ Cardinality(TargetRows) = 1
    /\ \A r \in TargetRows : PanelIdx(r.id) = {}
    /\ Len(panels) = 2

RECURSIVE SumOverRows(_)
SumOverRows(S) ==
    IF S = {} THEN 0
    ELSE LET r == CHOOSE x \in S : TRUE IN r.total_panels + SumOverRows(S \ {r})

\* C7: when update_manga_stats has completed without error (called on its
\* own or as the last step of the workflow's upsert), the manga's
\* total_chapters is the number of chapter rows of that manga and its
\* total_panels the sum of the total_panels those rows record.
C7_StatsMatchChapters ==
    (last.op \in {"update_manga_stats", "workflow_save"} /\ last.stats = "ok") =>
        LET mine == {r \in SeqRange(chapters) : r.manga_id = TheManga}
        IN /\ mangas[TheManga].total_chapters = Cardinality(mine)
           /\ mangas[TheManga].total_panels = SumOverRows(mine)

C7_Witness ==
    /\ last.op = "update_manga_stats"
    /\ last.stats = "ok"
    /\ mangas[TheManga].total_chapters = 2
    /\ mangas[TheManga].total_panels >= 3

\* C9: after an upsert returns, the chapter row's total_panels is the number
\* of panel rows persisted for it, and the upsert does not report success
\* when a panel write failed.
C9_RecordedCountIsPersistedCount ==
    last.op \in Upserts =>
        /\ \A r \in TargetRows : r.total_panels = Cardinality(PanelIdx(r.id))
        /\ last.saved => ~last.panel_failed

\* ------------------------------------------------------------------------
\* Specification SpecDiff: one listing of a source page by each program,
\* and auto_updater.process_manga up to its work list
\* ------------------------------------------------------------------------

\* Chapter numbers the store may already hold for the manga.
StoredNumbers == {PyInt(1), MkFloat(15, 10), PyInt(4)}

RECURSIVE RowsFor(_, _)
RowsFor(nums, first_id) ==
    IF nums = <<>> THEN <<>>
    ELSE <<[id |-> first_id, manga_id |-> TheManga, chapter_number |-> nums[1],
            title |-> "t1", total_panels |-> 0]>>
         \o RowsFor(Tail(nums), first_id + 1)

\* A chapters table: chapter 1.5 of another manga, then the given chapters
\* of this one.
TableWith(S) ==
    << [id |-> 1, manga_id |-> 2, chapter_number |-> MkFloat(15, 10),
        title |-> "t1", total_panels |-> 0] >> \o RowsFor(sorted(S), 2)

DiffInit ==
    /\ page \in SeqsUpTo(RawHrefs, MaxLinks)
    /\ FORCE_UPDATE \in BOOLEAN
    /\ chapters \in {TableWith(S) : S \in SUBSET StoredNumbers}
    /\ panels = <<>>
    /\ mangas = [m \in MangaIds |-> [total_chapters |-> 0, total_panels |-> 0]]
    /\ lister = "none"
    /\ chapter_links = <<>>
    /\ available_chapters = <<>>
    /\ all_chapters = <<>>
    /\ existing_chapters = {}
    /\ missing_chapter_list = <<>>
    /\ dpc = "start"
    /\ last = NoOp
    /\ WfIdle
    /\ SmIdle
    /\ PmIdle /\ AmIdle /\ MainIdle /\ RaceIdle /\ ObsIdle

\* process_manga, step 1.
GetExisting ==
    /\ dpc = "start"
    /\ \E read_ok \in BOOLEAN :
        existing_chapters' = get_existing_chapters_from_supabase(chapters, TheManga, read_ok)
    /\ dpc' = "existing"
    /\ UNCHANGED <<pmVars, amVars, mainVars, raceVars, exit_code, round_log, attempt,
                   storeVars, last, wfVars, smVars, page, FORCE_UPDATE, lister, chapter_links,
                   available_chapters, all_chapters, missing_chapter_list>>

\* process_manga, step 2.
GetAvailable ==
    /\ dpc = "existing"
    /\ \E fetch_ok \in BOOLEAN :
        /\ chapter_links' = IF fetch_ok THEN float_chapter_links(page, 1) ELSE <<>>
        /\ available_chapters' = get_available_chapters_from_source(page, fetch_ok)
    /\ lister' = "auto_updater"
    /\ dpc' = "listed"
    /\ UNCHANGED <<pmVars, amVars, mainVars, raceVars, exit_code, round_log, attempt,
                   storeVars, last, wfVars, smVars, page, FORCE_UPDATE, all_chapters,
                   existing_chapters, missing_chapter_list>>

\* process_manga, step 3: reached only with chapters available.
FindMissing ==
    /\ dpc = "listed"
    /\ lister = "auto_updater"
    /\ available_chapters # <<>>
    /\ missing_chapter_list' =
            find_missing_chapters(existing_chapters, available_chapters, FORCE_UPDATE)
    /\ dpc' = "diffed"
    /\ UNCHANGED <<pmVars, amVars, mainVars, raceVars, exit_code, round_log, attempt,
                   storeVars, last, wfVars, smVars, page, FORCE_UPDATE, lister, chapter_links,
                   available_chapters, all_chapters, existing_chapters>>

\* scrape_manga_to_supabase lists the page.
ListWorkflow ==
    /\ dpc = "start"
    /\ \E fetch_ok \in BOOLEAN :
        /\ chapter_links' = IF fetch_ok THEN float_chapter_links(page, 1) ELSE <<>>
        /\ all_chapters' = workflow_get_all_chapters(page, fetch_ok)
    /\ lister' = "scraper_workflow"
    /\ dpc' = "listed"
    /\ UNCHANGED <<pmVars, amVars, mainVars, raceVars, exit_code, round_log, attempt,
                   storeVars, last, wfVars, smVars, page, FORCE_UPDATE, available_chapters,
                   existing_chapters, missing_chapter_list>>

\* scrape_new_chapters_only lists the page.
ListSmart ==
    /\ dpc = "start"
    /\ \E fetch_ok \in BOOLEAN :
        /\ chapter_links' = IF fetch_ok THEN int_chapter_links(page, 1) ELSE <<>>
        /\ all_chapters' = smart_get_all_chapters(page, fetch_ok)
    /\ lister' = "scrape_new_chapters"
    /\ dpc' = "listed"
    /\ UNCHANGED <<pmVars, amVars, mainVars, raceVars, exit_code, round_log, attempt,
                   storeVars, last, wfVars, smVars, page, FORCE_UPDATE, available_chapters,
                   existing_chapters, missing_chapter_list>>

DiffNext == GetExisting \/ GetAvailable \/ FindMissing \/ ListWorkflow \/ ListSmart

SpecDiff == DiffInit /\ [][DiffNext]_vars

\* ------------------------------------------------------------------------
\* Properties of the listing and of the diff (SpecDiff)
\* ------------------------------------------------------------------------

\* A list holds each number of K exactly once, as the item the source map
\* has for it, and nothing else, in ascending order of number.
IsWorkListOf(L, K, available) ==
    /\ \A i \in DOMAIN L : L[i].number \in K /\ L[i] = available[L[i].number]
    /\ \A k \in K : Cardinality({i \in DOMAIN L : L[i].number = k}) = 1
    /\ \A i, j \in DOMAIN L : i < j => NumLt(L[i].number, L[j].number)

\* C2: with FORCE_UPDATE off, find_missing_chapters returns exactly the
\* source items whose numbers are available and not existing, each once, in
\* ascending order of number.
C2_DiffIsAvailableMinusExisting ==
    (dpc = "diffed" /\ ~FORCE_UPDATE) =>
        IsWorkListOf(missing_chapter_list,
                     DOMAIN available_chapters \ existing_chapters,
                     available_chapters)

C2_Witness ==
    /\ dpc = "diffed"
    /\ ~FORCE_UPDATE
    /\ Len(missing_chapter_list) = 2
    /\ missing_chapter_list[1].number = MkFloat(15, 10)
    /\ missing_chapter_list[2].number = MkFloat(4, 1)
    /\ existing_chapters = {MkFloat(1, 1)}
    /\ MkFloat(1, 1) \in DOMAIN available_chapters

\* C3: with FORCE_UPDATE on, find_missing_chapters returns every available
\* item, each once, in ascending order of number, whatever exists.
C3_ForcedDiffIsAllAvailable ==
    (dpc = "diffed" /\ FORCE_UPDATE) =>
        IsWorkListOf(missing_chapter_list, DOMAIN available_chapters, available_chapters)

C3_Witness ==
    /\ dpc = "diffed"
    /\ FORCE_UPDATE
    /\ Len(missing_chapter_list) = 3
    /\ existing_chapters \cap DOMAIN available_chapters # {}

\* The chapter identifier of a listed link as the source writes it, and
\* numerical equality of two identifiers.
RawToken(item) == MatchDigitsDots(item.url)
NumericallyEqual(s, t) == NumEq(PyFloat(s), PyFloat(t))

\* C6: in every listing, two links get the same chapter key if and only if
\* their raw identifiers are numerically equal.
C6_SameKeyIffNumericallyEqual ==
    dpc = "listed" =>
        \A i, j \in DOMAIN chapter_links :
            (PyFloatOk(RawToken(chapter_links[i])) /\ PyFloatOk(RawToken(chapter_links[j])))
                => (NumEq(chapter_links[i].number, chapter_links[j].number)
                        <=> NumericallyEqual(RawToken(chapter_links[i]),
                                             RawToken(chapter_links[j])))

\* ------------------------------------------------------------------------
\* scraper_workflow.scrape_manga_to_supabase: first pass and retry rounds
\* ------------------------------------------------------------------------

\* Default of the max_retries parameter; main never passes another value.
max_retries == 3

\* None, for the end_chapter parameter.
PyNone == [type |-> "none", num |-> 0, den |-> 1]
\* Truth value of a number or of None.
Truthy(x) == x.type # "none" /\ x.num # 0

\* An img element without any of the four URL attributes.
NoSrc == [v |-> 0, i |-> 0]

\* scraper_workflow.scrape_chapter_urls on a fetch of the chapter page:
\* fetch.ok is whether the request succeeded, fetch.imgs the URL (or
\* NoSrc) of each img element found.
scrape_chapter_urls(fetch) ==
    LET image_urls == IF fetch.ok THEN SelectSeq(fetch.imgs, LAMBDA u : u # NoSrc)
                      ELSE <<>>
    IN [image_urls |-> image_urls, success |-> image_urls # <<>>]

\* The range filter of scrape_manga_to_supabase.
FilterRange(chs, start_chapter, end_chapter) ==
    IF Truthy(start_chapter) \/ Truthy(end_chapter)
    THEN SelectSeq(chs, LAMBDA ch :
            /\ NumLe(start_chapter, ch.number)
            /\ (~Truthy(end_chapter) \/ NumLe(ch.number, end_chapter)))
    ELSE chs

\* A loop body that saves whatever the fetch returned.
ShouldSave_always(success, image_urls) == TRUE

\* if success and image_urls
ShouldSave(success, image_urls) == success /\ image_urls # <<>>

\* A loop that also ends at the first chapter that failed.
LoopBreaks_onFailure(result, intr) == intr \/ result = "failed"

\* except KeyboardInterrupt: break -- the only break of either for loop.
LoopBreaks(result, intr) == intr

\* A loop body that counts every chapter it processed as saved.
CountSaved_everyAttempt(count, result) == count + 1

\* if saved: success_count += 1
CountSaved(count, result) == IF result = "saved" THEN count + 1 ELSE count

\* A loop body that appends every chapter it processed to the failed list.
AppendFailed_always(list, chapter, result) == Append(list, chapter)

\* failed_chapters.append(chapter) / still_failed.append(chapter): in the
\* branches for a failed fetch, a failed save and an exception.
AppendFailed(list, chapter, result) ==
    IF result = "failed" THEN Append(list, chapter) ELSE list

\* History of the rounds: the log after an iteration on this chapter with
\* this result, first telling whether the iteration opens a round.
LogAttempt(log, first, chapter, result) ==
    LET cur == IF first THEN [attempted |-> <<>>, failed |-> <<>>, saved |-> <<>>]
               ELSE log[Len(log)]
        upd == [attempted |-> Append(cur.attempted, chapter),
                failed |-> IF result = "failed" THEN Append(cur.failed, chapter)
                           ELSE cur.failed,
                saved |-> IF result = "saved" THEN Append(cur.saved, chapter)
                          ELSE cur.saved]
    IN IF first THEN Append(log, upd) ELSE [log EXCEPT ![Len(log)] = upd]

\* A retry loop that runs one round more than max_retries.
RetryLoopContinues_oneMore(failed, count) ==
    failed # <<>> /\ count < max_retries + 1

\* A retry loop that counts the first pass as one of the max_retries rounds.
RetryLoopContinues_countingFirstPass(failed, count) ==
    failed # <<>> /\ count + 1 < max_retries

\* while failed_chapters and retry_count < max_retries
RetryLoopContinues(failed, count) == failed # <<>> /\ count < max_retries

\* Where control goes when a for loop is left with this failed list:
\* another retry round, or the summary.
EnterRetry(failed, count) ==
    IF RetryLoopContinues(failed, count)
    THEN [wpc |-> "retry", retry_count |-> count + 1, failed |-> failed]
    ELSE [wpc |-> "done", retry_count |-> count, failed |-> failed]

\* ------------------------------------------------------------------------
\* Specification SpecWorkflow: one run of scrape_manga_to_supabase
\* ------------------------------------------------------------------------

\* Longest source page of a run.
MaxWfLinks == 2

WfHrefs == { <<"1">>, <<"1", ".", "5">>, <<"x">> }

\* An environment variable that is not set.
Unset == <<"unset">>

\* os.environ.get(name, default)
environ_get(value, default) == IF value = Unset THEN default ELSE value

\* start_chapter = float(START_CHAPTER or "1"), 1.0 on ValueError
ParseStart(START_CHAPTER) ==
    LET start_chapter_str == environ_get(START_CHAPTER, <<"1">>)
    IN IF PyFloatOk(start_chapter_str) THEN PyFloat(start_chapter_str)
       ELSE MkFloat(1, 1)

\* end_chapter = float(END_CHAPTER) if it is set and not blank, None on
\* ValueError
ParseEnd(END_CHAPTER) ==
    IF END_CHAPTER # Unset /\ END_CHAPTER # <<>> /\ PyFloatOk(END_CHAPTER)
    THEN PyFloat(END_CHAPTER)
    ELSE PyNone

\* The call of scrape_manga_to_supabase main makes for an OPERATION:
\* scrape_all leaves the defaults start_chapter=1, end_chapter=None.
main_args(env) ==
    LET start_chapter == ParseStart(env.START_CHAPTER)
        end_chapter == ParseEnd(env.END_CHAPTER)
    IN CASE env.OPERATION = "scrape_all" ->
              [operation |-> "scrape_all", start_chapter |-> PyInt(1),
               end_chapter |-> PyNone]
         [] env.OPERATION = "scrape_range" ->
              [operation |-> "scrape_range", start_chapter |-> start_chapter,
               end_chapter |-> end_chapter]
         [] env.OPERATION = "scrape_single" ->
              [operation |-> "scrape_single", start_chapter |-> start_chapter,
               end_chapter |-> start_chapter]

\* The environments of the runs: every chapter; a range from 1.5 or from 0
\* to 1.5; one chapter, 1 or 0.
WfEnvs ==
    { [OPERATION |-> "scrape_all", START_CHAPTER |-> Unset, END_CHAPTER |-> Unset],
      [OPERATION |-> "scrape_range", START_CHAPTER |-> <<"1", ".", "5">>,
       END_CHAPTER |-> Unset],
      [OPERATION |-> "scrape_range", START_CHAPTER |-> <<"0">>,
       END_CHAPTER |-> <<"1", ".", "5">>],
      [OPERATION |-> "scrape_single", START_CHAPTER |-> <<"1">>,
       END_CHAPTER |-> Unset],
      [OPERATION |-> "scrape_single", START_CHAPTER |-> <<"0">>,
       END_CHAPTER |-> Unset] }

\* What a fetch of a chapter page may yield.
WfFetches ==
    { [ok |-> FALSE, imgs |-> <<>>], [ok |-> TRUE, imgs |-> <<>>],
      [ok |-> TRUE, imgs |-> UrlList(1, 1)],
      [ok |-> TRUE, imgs |-> <<NoSrc>> \o UrlList(1, 1)] }

\* The body of one iteration of either for loop, for this chapter: the
\* store it leaves, whether the chapter was saved or failed, and whether
\* KeyboardInterrupt ended the loop (during the fetch: result "none"; or
\* during the sleep that follows).
IterationOutcomes(chapter) ==
    {[db |-> Db, result |-> "none", intr |-> TRUE, fetch |-> "none"]}
    \cup
    UNION { LET sc == scrape_chapter_urls(fetch)
                fetched == IF sc.success /\ sc.image_urls # <<>> THEN "ok" ELSE "failed"
            IN IF ShouldSave(sc.success, sc.image_urls)
               THEN UNION { { [db |-> r.db,
                               result |-> IF r.saved THEN "saved" ELSE "failed",
                               intr |-> b, fetch |-> fetched]
                              : r \in { workflow_save_chapter_to_supabase(
                                            Db, TheManga, chapter.number, chapter.text,
                                            sc.image_urls, fail, stats_fail)
                                        : stats_fail \in IF fail = "none" THEN StatsFailures
                                                         ELSE {"none"} },
                                b \in BOOLEAN }
                            : fail \in CallsMade(chapter.number, sc.image_urls) \cup {"none"} }
               ELSE { [db |-> Db, result |-> "failed", intr |-> b, fetch |-> fetched]
                      : b \in BOOLEAN }
          : fetch \in WfFetches }

\* Position of a chapter in the work list (numbers are unique in it).
WorkIndex(chapter) == CHOOSE i \in DOMAIN wf_chapters : wf_chapters[i] = chapter

WfInit ==
    /\ StoreRows
    /\ last = NoOp
    /\ page \in SeqsUpTo(WfHrefs, MaxWfLinks)
    /\ FORCE_UPDATE = FALSE
    /\ lister = "none"
    /\ chapter_links = <<>>
    /\ available_chapters = <<>>
    /\ all_chapters = <<>>
    /\ existing_chapters = {}
    /\ missing_chapter_list = <<>>
    /\ dpc = "idle"
    /\ wpc = "start"
    /\ wf_chapters = <<>>
    /\ pos = 1
    /\ success_count = 0
    /\ failed_chapters = <<>>
    /\ still_failed = <<>>
    /\ retry_count = 0
    /\ wf_result = "none"
    /\ attempts = <<>>
    /\ saved_ever = {}
    /\ interrupted = FALSE
    /\ wf_args = NoArgs
    /\ SmIdle
    /\ PmIdle /\ AmIdle /\ MainIdle /\ RaceIdle /\ ObsIdle

\* From the call to the first iteration of the first pass.
WfStart ==
    /\ wpc = "start"
    /\ \E manga_ok \in BOOLEAN, fetch_ok \in BOOLEAN, env \in WfEnvs :
        \E chs \in {workflow_get_all_chapters(page, fetch_ok)}, args \in {main_args(env)} :
            /\ wf_args' = args
            /\ IF ~manga_ok \/ chs = <<>>
               THEN /\ wpc' = "done"
                    /\ wf_result' = IF manga_ok THEN "no chapter list" ELSE "manga not saved"
                    /\ UNCHANGED <<wf_chapters, pos, success_count, failed_chapters,
                                   still_failed, retry_count, attempts, saved_ever,
                                   interrupted>>
               ELSE \E work \in {FilterRange(chs, args.start_chapter, args.end_chapter)} :
                       /\ wf_chapters' = work
                       /\ attempts' = [i \in DOMAIN work |-> 0]
                       /\ wpc' = IF work = <<>> THEN "done" ELSE "first"
                       /\ wf_result' = IF work = <<>> THEN "summary" ELSE "none"
                       /\ UNCHANGED <<pos, success_count, failed_chapters, still_failed,
                                      retry_count, saved_ever, interrupted>>
    /\ UNCHANGED <<storeVars, diffVars, last, smVars, pmVars, amVars, mainVars, raceVars,
                   exit_code, round_log, attempt>>

\* One iteration of the first pass; leaving the loop evaluates the retry
\* loop's condition.
WfFirstPass ==
    /\ wpc = "first"
    /\ \E o \in IterationOutcomes(wf_chapters[pos]) :
        \E failed \in {AppendFailed(failed_chapters, wf_chapters[pos], o.result)} :
            /\ SetDb(o.db)
            /\ round_log' = LogAttempt(round_log, pos = 1, wf_chapters[pos], o.result)
            /\ attempt' = [n |-> attempt.n + 1, program |-> "workflow",
                           fetch |-> o.fetch, recorded |-> failed # failed_chapters]
            /\ attempts' = [attempts EXCEPT ![pos] = @ + 1]
            /\ success_count' = CountSaved(success_count, o.result)
            /\ saved_ever' = saved_ever \cup (IF o.result = "saved" THEN {pos} ELSE {})
            /\ interrupted' = (interrupted \/ o.intr)
            /\ IF ~LoopBreaks(o.result, o.intr) /\ pos < Len(wf_chapters)
               THEN /\ pos' = pos + 1
                    /\ failed_chapters' = failed
                    /\ UNCHANGED <<wpc, retry_count, wf_result>>
               ELSE \E nxt \in {EnterRetry(failed, 0)} :
                    /\ pos' = 1
                    /\ failed_chapters' = nxt.failed
                    /\ wpc' = nxt.wpc
                    /\ retry_count' = nxt.retry_count
                    /\ wf_result' = IF nxt.wpc = "done" THEN "summary" ELSE "none"
    /\ UNCHANGED <<diffVars, last, smVars, pmVars, amVars, mainVars, raceVars, exit_code,
                   wf_chapters, still_failed, wf_args>>

\* One iteration of a retry round; leaving the loop assigns still_failed to
\* failed_chapters and evaluates the retry loop's condition again.
WfRetry ==
    /\ wpc = "retry"
    /\ \E o \in IterationOutcomes(failed_chapters[pos]) :
        \E still \in {AppendFailed(still_failed, failed_chapters[pos], o.result)} :
            /\ SetDb(o.db)
            /\ round_log' = LogAttempt(round_log, pos = 1, failed_chapters[pos], o.result)
            /\ attempt' = [n |-> attempt.n + 1, program |-> "workflow",
                           fetch |-> o.fetch, recorded |-> still # still_failed]
            /\ attempts' = [attempts EXCEPT ![WorkIndex(failed_chapters[pos])] = @ + 1]
            /\ success_count' = CountSaved(success_count, o.result)
            /\ saved_ever' = saved_ever \cup (IF o.result = "saved"
                                              THEN {WorkIndex(failed_chapters[pos])}
                                              ELSE {})
            /\ interrupted' = (interrupted \/ o.intr)
            /\ IF ~LoopBreaks(o.result, o.intr) /\ pos < Len(failed_chapters)
               THEN /\ pos' = pos + 1
                    /\ still_failed' = still
                    /\ UNCHANGED <<wpc, retry_count, wf_result, failed_chapters>>
               ELSE \E nxt \in {EnterRetry(still, retry_count)} :
                    /\ pos' = 1
                    /\ still_failed' = <<>>
                    /\ failed_chapters' = nxt.failed
                    /\ wpc' = nxt.wpc
                    /\ retry_count' = nxt.retry_count
                    /\ wf_result' = IF nxt.wpc = "done" THEN "summary" ELSE "none"
    /\ UNCHANGED <<diffVars, last, smVars, pmVars, amVars, mainVars, raceVars, exit_code,
                   wf_chapters, wf_args>>

\* scraper_workflow.main after scrape_manga_to_supabase returned (it
\* returns None on every path): 'Script completed successfully', and the
\* process ends with status 0.
WfExit ==
    /\ wpc = "done"
    /\ exit_code = NotExited
    /\ exit_code' = 0
    /\ UNCHANGED <<storeVars, diffVars, last, wfVars, smVars, pmVars, amVars, mainVars,
                   raceVars, round_log, attempt>>

WfNext == WfStart \/ WfFirstPass \/ WfRetry \/ WfExit

SpecWorkflow == WfInit /\ [][WfNext]_vars

\* Source pages of the runs followed to their end: no chapter link, one
\* chapter, two chapters listed newest first.
LivePages ==
    { <<<<"x">>>>, <<<<"1">>>>, << <<"1", ".", "5">>, <<"1">> >> }

WfLiveInit == WfInit /\ page \in LivePages

\* The run is not suspended for ever: each step of the program that can be
\* taken is taken (a request returns or raises, a sleep ends).
SpecWorkflowLive == WfLiveInit /\ [][WfNext]_vars /\ WF_vars(WfNext)

\* ------------------------------------------------------------------------
\* Properties of the retry rounds (SpecWorkflow)
\* ------------------------------------------------------------------------

\* The run reached its summary without a KeyboardInterrupt.
WfCompleted == wpc = "done" /\ wf_result = "summary" /\ ~interrupted

\* The chapters of the work list no attempt saved.
NeverSaved == DOMAIN wf_chapters \ saved_ever

TimesInFailedList(i) ==
    Cardinality({j \in DOMAIN failed_chapters : failed_chapters[j] = wf_chapters[i]})

\* C1 (as the code has it): in a run of scrape_manga_to_supabase with
\* max_retries = 3 that is not interrupted, a chapter whose fetch or save
\* fails on every attempt is attempted exactly max_retries + 1 = 4 times,
\* the first pass and three retry rounds, and appears exactly once in the
\* final failed list of the summary.
C1_AlwaysFailingAttemptedFourTimes ==
    WfCompleted =>
        \A i \in NeverSaved : attempts[i] = max_retries + 1 /\ TimesInFailedList(i) = 1

\* A completed run with one chapter that failed on all its attempts and
\* another that was saved.
C1_Witness ==
    /\ WfCompleted
    /\ \E i \in NeverSaved : attempts[i] = 4 /\ TimesInFailedList(i) = 1
    /\ saved_ever # {}

\* C1 (as stated): such a chapter is attempted exactly 3 times in total,
\* the first pass counting as round 1, and is listed once.
C1_AlwaysFailingAttemptedThreeTimes ==
    WfCompleted =>
        \A i \in NeverSaved : attempts[i] = 3 /\ TimesInFailedList(i) = 1

\* The run printed its summary (interrupted or not).
WfSummarised == wpc = "done" /\ wf_result = "summary"

\* C14: at the end of every run of scrape_manga_to_supabase, interrupted or
\* not, every chapter of the work list that no attempt saved is in the
\* final failed list, and the summary reports 'All chapters scraped
\* successfully' (its branch for an empty failed list) only if every
\* chapter of the work list was saved.
C14_UnsavedAreListedFailed ==
    WfSummarised =>
        /\ \A i \in NeverSaved : TimesInFailedList(i) >= 1
        /\ (failed_chapters = <<>> => NeverSaved = {})

\* C15: once KeyboardInterrupt was received in scrape_manga_to_supabase, no
\* chapter is fetched or upserted any more in that run: no step after the
\* interrupt attempts a chapter or changes the store.
C15_NoAttemptAfterInterrupt ==
    [][interrupted => (attempts' = attempts /\ UNCHANGED storeVars)]_vars

IsPrefix(s, t) == Len(s) <= Len(t) /\ s = SubSeq(t, 1, Len(s))
Elems(s) == {s[i] : i \in DOMAIN s}
\* Round k of the log has run all its iterations.
RoundOver(k) == k < Len(round_log) \/ wpc = "done"

\* C19: in a run of scrape_manga_to_supabase without KeyboardInterrupt,
\* every retry round attempts the chapters that failed in the round before
\* it (the first pass before the first retry round), in the same order and
\* no others, and a chapter saved in one round is not attempted in any
\* later round.
C19_RetryRoundsAttemptPreviousFailures ==
    ~interrupted =>
        /\ \A k \in 2..Len(round_log) :
              /\ IsPrefix(round_log[k].attempted, round_log[k-1].failed)
              /\ RoundOver(k) => round_log[k].attempted = round_log[k-1].failed
        /\ \A k, l \in DOMAIN round_log :
              k < l => Elems(round_log[k].saved) \cap Elems(round_log[l].attempted) = {}

\* A run without interrupt whose first pass saved one chapter and failed on
\* another, and whose first retry round attempted just the failed one.
C19_Witness ==
    /\ wpc = "done"
    /\ ~interrupted
    /\ Len(round_log) >= 2
    /\ round_log[1].saved # <<>>
    /\ round_log[1].failed # <<>>
    /\ round_log[2].attempted = round_log[1].failed

\* C27: at the end of a run of scrape_manga_to_supabase without
\* KeyboardInterrupt, success_count plus the length of the final failed
\* list is the length of the work list; success_count is the number of
\* distinct chapters saved (none counted twice), and no saved chapter is in
\* the failed list.
C27_SavedPlusFailedIsWorkList ==
    WfCompleted =>
        /\ success_count + Len(failed_chapters) = Len(wf_chapters)
        /\ success_count = Cardinality(saved_ever)
        /\ \A i \in saved_ever : TimesInFailedList(i) = 0

\* A completed run of two chapters: one saved in a retry round, the other
\* still failed at the end.
C27_Witness ==
    /\ WfCompleted
    /\ Len(wf_chapters) = 2
    /\ success_count = 1
    /\ Len(failed_chapters) = 1
    /\ Len(round_log) > 1
    /\ round_log[1].saved = <<>>

\* The run built its work list: the manga was saved and the source listed
\* at least one chapter.
WfListBuilt ==
    /\ wpc \in {"first", "retry", "done"}
    /\ wf_result \notin {"no chapter list", "manga not saved"}

\* start <= number <= end, without upper bound when no end was given.
InRange(ch, start_chapter, end_chapter) ==
    /\ NumLe(start_chapter, ch.number)
    /\ (end_chapter.type = "none" \/ NumLe(ch.number, end_chapter))

\* C23: the work list of a run with a range (scrape_range, scrape_single)
\* is exactly the available chapters with start <= number <= end, in the
\* order of the source list; for scrape_single, start = end = START_CHAPTER,
\* so only the chapter of that number is processed, 0 included.
C23_WorkListIsTheRange ==
    (WfListBuilt /\ wf_args.operation \in {"scrape_range", "scrape_single"}) =>
        wf_chapters =
            SelectSeq(workflow_get_all_chapters(page, TRUE),
                      LAMBDA ch : InRange(ch, wf_args.start_chapter,
                                          wf_args.end_chapter))

\* The run has ended: summary printed, or ended before the first pass.
WfEnded == wpc = "done"

\* C28: scrape_manga_to_supabase terminates whatever fetches and saves
\* fail: the retry loop runs at most max_retries rounds, a round runs only
\* on a failed list that is not empty (the loop ends before max_retries
\* rounds only with the list empty), and no chapter is attempted more
\* than max_retries + 1 times.
C28_RetryLoopTerminates ==
    /\ [](/\ retry_count <= max_retries
          /\ (wpc = "retry" => failed_chapters # <<>>)
          /\ ((WfEnded /\ retry_count < max_retries) => failed_chapters = <<>>)
          /\ \A i \in DOMAIN attempts : attempts[i] <= max_retries + 1)
    /\ <>WfEnded

\* A run that used all its retry rounds on a chapter.
C28_Witness ==
    /\ WfEnded
    /\ retry_count = max_retries
    /\ failed_chapters # <<>>
    /\ \E i \in DOMAIN attempts : attempts[i] = max_retries + 1

\* ------------------------------------------------------------------------

\* str(n) of a natural number, as csv writes a count or a chapter number.
RECURSIVE PyStrOfInt(_)
PyStrOfInt(n) ==
    LET d == CHOOSE c \in Digits : DigitVal(c) = n % 10
    IN IF n < 10 THEN <<d>> ELSE Append(PyStrOfInt(n \div 10), d)

\* The row update_metadata appends for a chapter without a row.
LedgerRow(manga_name, manga_slug, chapter_num, panel_count, expected_count, status, error) ==
    [manga_name |-> manga_name, manga_slug |-> manga_slug,
     chapter_number |-> PyStrOfInt(chapter_num.num),
     panel_count |-> PyStrOfInt(panel_count),
     expected_count |-> PyStrOfInt(expected_count),
     status |-> status, error |-> error]

\* scrape_new_chapters.load_existing_metadata on the rows of the file (no
\* rows when there is no file): the rows of the slug keyed by
\* int(chapter_number), the last row of a key winning.
load_existing_metadata(rows, manga_slug) ==
    LET mine == {i \in DOMAIN rows : rows[i].manga_slug = manga_slug}
        key(i) == PyInt(IntOfDigits(rows[i].chapter_number))
    IN [k \in {key(i) : i \in mine} |->
          LET i == CHOOSE x \in mine : key(x) = k /\ \A y \in mine : key(y) = k => y <= x
          IN [panel_count |-> IntOfDigits(rows[i].panel_count),
              expected_count |-> IntOfDigits(rows[i].expected_count),
              status |-> rows[i].status]]

\* A ledger that is only appended to.
update_metadata_appendOnly(rows, manga_name, manga_slug, chapter_num, panel_count, expected_count, status, error) ==
    Append(rows, LedgerRow(manga_name, manga_slug, chapter_num, panel_count,
                           expected_count, status, error))

\* scrape_new_chapters.update_metadata: every row of this slug and chapter
\* is rewritten in place; a row is appended when there was none.
update_metadata(rows, manga_name, manga_slug, chapter_num, panel_count, expected_count, status, error) ==
    LET hit(i) == /\ rows[i].manga_slug = manga_slug
                  /\ PyInt(IntOfDigits(rows[i].chapter_number)) = chapter_num
        rewritten == [i \in DOMAIN rows |->
                        IF hit(i)
                        THEN [rows[i] EXCEPT !.manga_name = manga_name,
                                             !.panel_count = PyStrOfInt(panel_count),
                                             !.expected_count = PyStrOfInt(expected_count),
                                             !.status = status,
                                             !.error = error]
                        ELSE rows[i]]
    IN IF \E i \in DOMAIN rows : hit(i) THEN rewritten
       ELSE Append(rewritten, LedgerRow(manga_name, manga_slug, chapter_num, panel_count,
                                        expected_count, status, error))

\* The positions of the ledger rows of a series and chapter.
KeyRows(rows, manga_slug, chapter_num) ==
    {i \in DOMAIN rows : /\ rows[i].manga_slug = manga_slug
                         /\ PyInt(IntOfDigits(rows[i].chapter_number)) = chapter_num}

\* A status rule without 'partial'.
ChapterStatus_allOrNothing(uploaded_count, expected_count) ==
    IF uploaded_count = expected_count THEN "success" ELSE "failed"

\* "Determine status" of scrape_chapter_direct_to_cloudinary.
ChapterStatus(uploaded_count, expected_count) ==
    IF uploaded_count = expected_count THEN "success"
    ELSE IF uploaded_count > 0 THEN "partial"
    ELSE "failed"

\* The error message recorded with the status.
StatusError(status) ==
    CASE status = "success" -> ""
      [] status = "partial" -> "Uploaded k/n panels"
      [] OTHER -> "All uploads failed"

\* An asset of the image host: folder manga/<slug>/chapter-<chapter>, public
\* id panel-<idx>.
Asset(manga_slug, chapter_num, idx) ==
    [manga_slug |-> manga_slug, chapter |-> chapter_num, idx |-> idx]

\* cloudinary.uploader.upload(..., public_id=panel-<idx>, overwrite=False)
\* of every image whose download and upload succeed: afterwards the folder
\* holds an asset with that public id (the one it held before, if any).
Upload(assets, manga_slug, chapter_num, image_urls, upload_ok) ==
    assets \cup
    { Asset(manga_slug, chapter_num, idx) : idx \in DOMAIN image_urls \cap upload_ok }

\* What scrape_chapter_direct_to_cloudinary returns, with the ledger and
\* the assets it leaves.
SyncResult(rows, assets, panel_count, success, error, expected) ==
    [ledger |-> rows, cloud |-> assets, panel_count |-> panel_count,
     success |-> success, error |-> error, expected |-> expected]

\* scrape_new_chapters.scrape_chapter_direct_to_cloudinary. fetch: whether
\* the page request succeeded and the URL (or NoSrc) of each img element;
\* upload_ok: the positions of image_urls whose download and upload succeed.
scrape_chapter_direct_to_cloudinary(rows, assets, manga_name, manga_slug, chapter_num, fetch, upload_ok) ==
    LET expected_count == Len(fetch.imgs)
        image_urls == SelectSeq(fetch.imgs, LAMBDA u : u # NoSrc)
        uploaded_count == Cardinality(DOMAIN image_urls \cap upload_ok)
        status == ChapterStatus(uploaded_count, expected_count)
        Record(n, e, st, err) ==
            update_metadata(rows, manga_name, manga_slug, chapter_num, n, e, st, err)
    IN IF ~fetch.ok
       THEN SyncResult(Record(0, 0, "failed", "request failed"), assets,
                       0, FALSE, "request failed", 0)
       ELSE IF expected_count = 0
       THEN SyncResult(Record(0, 0, "failed", "No images found"), assets,
                       0, FALSE, "No images found", 0)
       ELSE IF image_urls = <<>>
       THEN SyncResult(Record(0, expected_count, "failed", "No valid image URLs"),
                       assets, 0, FALSE, "No valid image URLs", expected_count)
       ELSE SyncResult(Record(uploaded_count, expected_count, status, StatusError(status)),
                       Upload(assets, manga_slug, chapter_num, image_urls, upload_ok),
                       uploaded_count, uploaded_count = expected_count,
                       StatusError(status), expected_count)

\* A ledger entry that counts as incomplete only when it failed.
IsIncomplete_failedOnly(meta) == meta.status = "failed"

\* The test of scrape_new_chapters_only on the ledger entry of a chapter.
IsIncomplete(meta) ==
    meta.status # "success" \/ meta.panel_count # meta.expected_count

\* The work list of scrape_new_chapters_only: the chapters without an entry
\* and the incomplete ones, in the order of all_chapters.
FindNewChapters(chs, existing) ==
    SelectSeq(chs, LAMBDA chapter :
        \/ chapter.number \notin DOMAIN existing
        \/ IsIncomplete(existing[chapter.number]))

\* ------------------------------------------------------------------------
\* Specification SpecSmart: runs of scrape_new_chapters.py for one series,
\* one after the other, on one ledger and one image host
\* ------------------------------------------------------------------------

\* Longest source page, most img elements of a chapter page, and number of
\* runs of the script.
MaxSmLinks == 2
MaxImages == 2
MaxRuns == 2

TheSlug == "one-piece"
OtherSlug == "naruto"
TheName == "One Piece"

\* The i-th link of the source page: a link that is not a chapter, then
\* the chapters 2 and 1, each linked again further down.
SmLink(i) == IF i = 1 THEN <<"x">> ELSE IF i % 2 = 0 THEN <<"2">> ELSE <<"1">>
SmPages == {[i \in 1..n |-> SmLink(i)] : n \in 0..(MaxSmLinks + 1)}

\* The img elements of a chapter page: element j has URL [1, j] or none.
SmImgs ==
    UNION { [1..n -> BOOLEAN] : n \in 0..MaxImages }
SmFetches ==
    {[ok |-> FALSE, imgs |-> <<>>]}
    \cup {[ok |-> TRUE, imgs |-> [j \in DOMAIN has |-> IF has[j] THEN UrlList(1, j)[j]
                                                        ELSE NoSrc]] : has \in SmImgs}

\* The ledger holds a complete chapter 1 of another series.
SmInit ==
    /\ StoreRows
    /\ last = NoOp
    /\ page \in SmPages
    /\ FORCE_UPDATE = FALSE
    /\ lister = "none"
    /\ chapter_links = <<>>
    /\ available_chapters = <<>>
    /\ all_chapters = <<>>
    /\ existing_chapters = {}
    /\ missing_chapter_list = <<>>
    /\ dpc = "idle"
    /\ WfIdle
    /\ PmIdle /\ AmIdle /\ MainIdle /\ RaceIdle /\ ObsIdle
    /\ ledger = <<LedgerRow("Naruto", OtherSlug, PyInt(1), 1, 1, "success", "")>>
    /\ cloud = {Asset(OtherSlug, PyInt(1), 1)}
    /\ spc = "start"
    /\ new_chapters = <<>>
    /\ spos = 1
    /\ sm_success_count = 0
    /\ sm_failed_chapters = <<>>
    /\ sm_result = "none"
    /\ sm_last = NoSync
    /\ runs = 1

\* scrape_new_chapters_only up to its loop: listing, ledger, work list.
SmStart ==
    /\ spc = "start"
    /\ \E fetch_ok \in BOOLEAN :
        \E chs \in {smart_get_all_chapters(page, fetch_ok)} :
            /\ all_chapters' = chs
            /\ lister' = "scrape_new_chapters"
            /\ IF chs = <<>>
               THEN /\ spc' = "done"
                    /\ sm_result' = "Could not fetch chapter list"
                    /\ UNCHANGED new_chapters
               ELSE \E existing \in {load_existing_metadata(ledger, TheSlug)} :
                    /\ new_chapters' = FindNewChapters(chs, existing)
                    /\ spc' = IF new_chapters' = <<>> THEN "done" ELSE "loop"
                    /\ sm_result' = IF new_chapters' = <<>>
                                    THEN "All chapters already uploaded" ELSE "none"
    /\ UNCHANGED <<pmVars, amVars, mainVars, raceVars, exit_code, round_log, attempt,
                   storeVars, last, wfVars, page, FORCE_UPDATE, chapter_links,
                   available_chapters, existing_chapters, missing_chapter_list, dpc,
                   ledger, cloud, spos, sm_success_count, sm_failed_chapters, sm_last,
                   runs>>

\* One iteration of the loop of scrape_new_chapters_only.
SmScrapeChapter ==
    /\ spc = "loop"
    /\ \E fetch \in SmFetches :
        \E upload_ok \in SUBSET {i \in 1..MaxImages :
                                   i <= Len(SelectSeq(fetch.imgs, LAMBDA u : u # NoSrc))} :
            \E r \in {scrape_chapter_direct_to_cloudinary(
                          ledger, cloud, TheName, TheSlug, new_chapters[spos].number,
                          fetch, upload_ok)} :
                /\ ledger' = r.ledger
                /\ cloud' = r.cloud
                /\ sm_last' = [chapter |-> new_chapters[spos].number,
                               fetched |-> fetch.ok,
                               imgs |-> Len(fetch.imgs),
                               supplied |-> Len(SelectSeq(fetch.imgs, LAMBDA u : u # NoSrc)),
                               uploaded |-> Cardinality(upload_ok),
                               panel_count |-> r.panel_count,
                               success |-> r.success,
                               error |-> r.error,
                               expected |-> r.expected,
                               rows_before |-> Cardinality(
                                   KeyRows(ledger, TheSlug, new_chapters[spos].number))]
                /\ IF r.success /\ r.panel_count > 0
                   THEN /\ sm_success_count' = sm_success_count + 1
                        /\ UNCHANGED sm_failed_chapters
                   ELSE /\ sm_failed_chapters' =
                               Append(sm_failed_chapters, new_chapters[spos].number)
                        /\ UNCHANGED sm_success_count
    /\ IF spos < Len(new_chapters)
       THEN spos' = spos + 1 /\ UNCHANGED <<spc, sm_result>>
       ELSE spos' = 1 /\ spc' = "done" /\ sm_result' = "summary"
    /\ UNCHANGED <<storeVars, diffVars, last, wfVars, new_chapters, runs, pmVars,
                   amVars, mainVars, raceVars, exit_code, round_log, attempt>>

\* scrape_new_chapters.main after scrape_new_chapters_only returned:
\* sys.exit(0) if result['success'] else sys.exit(1); only the return for
\* an empty chapter list has success False.
SmExit ==
    /\ spc = "done"
    /\ exit_code = NotExited
    /\ exit_code' = IF sm_result = "Could not fetch chapter list" THEN 1 ELSE 0
    /\ UNCHANGED <<storeVars, diffVars, last, wfVars, smVars, pmVars, amVars, mainVars,
                   raceVars, round_log, attempt>>

\* The script is run again (main), on the ledger and the assets as they are.
SmRunAgain ==
    /\ spc = "done"
    /\ exit_code # NotExited
    /\ runs < MaxRuns
    /\ runs' = runs + 1
    /\ exit_code' = NotExited
    /\ spc' = "start"
    /\ new_chapters' = <<>>
    /\ spos' = 1
    /\ sm_success_count' = 0
    /\ sm_failed_chapters' = <<>>
    /\ sm_result' = "none"
    /\ sm_last' = NoSync
    /\ all_chapters' = <<>>
    /\ lister' = "none"
    /\ UNCHANGED <<pmVars, amVars, mainVars, raceVars, round_log, attempt,
                   storeVars, last, wfVars, page, FORCE_UPDATE, chapter_links,
                   available_chapters, existing_chapters, missing_chapter_list, dpc,
                   ledger, cloud>>

SmNext == SmStart \/ SmScrapeChapter \/ SmExit \/ SmRunAgain

SpecSmart == SmInit /\ [][SmNext]_vars

\* ------------------------------------------------------------------------
\* Properties of the uploader (SpecSmart)
\* ------------------------------------------------------------------------

\* The ledger rows of a chapter of the series, cells parsed.
RowsOfChapter(number) ==
    { [panel_count |-> IntOfDigits(ledger[i].panel_count),
       expected_count |-> IntOfDigits(ledger[i].expected_count),
       status |-> ledger[i].status]
      : i \in { j \in DOMAIN ledger : /\ ledger[j].manga_slug = TheSlug
                                      /\ IntOfDigits(ledger[j].chapter_number) = number.num } }

\* The work list was just built and no chapter of it processed yet, so the
\* ledger is the one the list was built from.
WorkListBuilt ==
    \/ spc = "loop" /\ spos = 1 /\ sm_last = NoSync
    \/ spc = "done" /\ sm_result = "All chapters already uploaded"

InWorkList(chapter) == \E i \in DOMAIN new_chapters : new_chapters[i] = chapter

Synced == sm_last # NoSync
SyncedRows == RowsOfChapter(sm_last.chapter)
\* The uploads of the sync that succeeded.
Persisted == sm_last.uploaded

\* C8 (as the code has it): scrape_chapter_direct_to_cloudinary derives the
\* status from two counts, the uploads that succeeded and the img elements
\* found on the chapter page (expected_count), which is more than the
\* number of images supplied for upload when an element has no URL:
\* 'success' iff the two are equal and not 0, 'partial' iff 0 < persisted <
\* expected, 'failed' iff persisted is 0. The ledger row holds both counts
\* and the status, and the call returns success iff the status is 'success'.
C8_StatusFromPersistedAndExpected ==
    Synced =>
        /\ Cardinality(SyncedRows) = 1
        /\ \A row \in SyncedRows :
            /\ row.panel_count = Persisted
            /\ row.expected_count = sm_last.imgs
            /\ row.status = "success" <=> (Persisted = sm_last.imgs /\ Persisted > 0)
            /\ row.status = "partial" <=> (0 < Persisted /\ Persisted < sm_last.imgs)
            /\ row.status = "failed" <=> Persisted = 0
            /\ sm_last.success <=> row.status = "success"
            /\ sm_last.panel_count = row.panel_count

\* One of two uploads succeeded: 'partial' with counts 1 and 2.
C8_Witness ==
    /\ Synced
    /\ sm_last.imgs = 2 /\ sm_last.supplied = 2 /\ Persisted = 1
    /\ \E row \in SyncedRows :
          row.status = "partial" /\ row.panel_count = 1 /\ row.expected_count = 2

\* C8 (as stated): 'success' iff the number persisted equals the number
\* supplied for writing, 'partial' iff 0 < persisted < that number,
\* 'failed' iff persisted is 0 or nothing was supplied.
C8_StatusFromPersistedAndSupplied ==
    Synced =>
        \A row \in SyncedRows :
            /\ row.status = "success" <=> (Persisted = sm_last.supplied /\ Persisted > 0)
            /\ row.status = "partial" <=> (0 < Persisted /\ Persisted < sm_last.supplied)
            /\ row.status = "failed" <=> (Persisted = 0 \/ sm_last.supplied = 0)

\* The ordinals of the assets of a chapter of the series.
Ordinals(number) ==
    {a.idx : a \in {x \in cloud : x.manga_slug = TheSlug /\ x.chapter = number}}

\* C10: for every chapter whose ledger status is success or partial, the
\* ordinals of its persisted panels are exactly 1..k, k their number.
C10_OrdinalsGapless ==
    \A i \in DOMAIN ledger :
        (ledger[i].manga_slug = TheSlug /\ ledger[i].status \in {"success", "partial"}) =>
            LET ords == Ordinals(PyInt(IntOfDigits(ledger[i].chapter_number)))
            IN ords = 1..Cardinality(ords)

\* The raw ledger rows of the chapter of the last sync.
SyncedRawRows == {ledger[i] : i \in KeyRows(ledger, TheSlug, sm_last.chapter)}

\* C18: whatever the outcome of a call of
\* scrape_chapter_direct_to_cloudinary, the ledger then holds exactly one
\* row for (manga_slug, chapter_number), with the panel_count,
\* expected_count and error the call returned and the status of that
\* outcome; and the ledger never holds two rows for one (manga_slug,
\* chapter_number).
C18_OneRowPerAttempt ==
    /\ Synced =>
          /\ Cardinality(KeyRows(ledger, TheSlug, sm_last.chapter)) = 1
          /\ \A row \in SyncedRawRows :
                /\ row.panel_count = PyStrOfInt(sm_last.panel_count)
                /\ row.expected_count = PyStrOfInt(sm_last.expected)
                /\ row.error = sm_last.error
                /\ row.status = "success" <=> sm_last.success
                /\ row.status = "failed" <=> sm_last.panel_count = 0
                /\ row.status \in {"success", "partial", "failed"}
                /\ row.error = "" <=> row.status = "success"
    /\ \A i, j \in DOMAIN ledger :
          (/\ ledger[i].manga_slug = ledger[j].manga_slug
           /\ IntOfDigits(ledger[i].chapter_number) = IntOfDigits(ledger[j].chapter_number))
          => i = j

\* A chapter whose row an earlier run wrote as failed or partial is synced
\* again with success: still one row, now 'success' with no error.
C18_Witness ==
    /\ Synced
    /\ runs = 2
    /\ sm_last.rows_before = 1
    /\ sm_last.success
    /\ \E row \in SyncedRawRows : row.status = "success" /\ row.error = ""
    /\ Cardinality(KeyRows(ledger, TheSlug, sm_last.chapter)) = 1

\* ------------------------------------------------------------------------
\* Specification SpecRace: two invocations upsert the same chapter on one
\* store, their store calls interleaved
\* ------------------------------------------------------------------------

RaceProcs == {1, 2}
\* Most image URLs an invocation hands to its upsert, and most upserts of
\* the chapter an invocation makes one after the other.
MaxRacePanels == 1
MaxRaceCalls == 2

\* The locals of an invocation about to call save_chapter_to_supabase:
\* which program it is, title and image URLs it scraped, and those of the
\* call; inserted records whether any of its calls inserted a chapter row.
RaceLocals(prog, v, n) ==
    [prog |-> prog, title |-> TitleOf(v), image_urls |-> UrlList(v, n),
     found |-> FALSE, chapter_id |-> 0, saved |-> FALSE, calls |-> 1,
     inserted |-> FALSE]

\* The chapter number after the head of save_chapter_to_supabase.
RaceNumber == NormalizeChapterNumber(TargetNumber)

RaceInit ==
    /\ StoreRows
    /\ last = NoOp
    /\ DiffIdle /\ WfIdle /\ SmIdle /\ PmIdle /\ AmIdle /\ MainIdle /\ ObsIdle
    /\ rpc = [p \in RaceProcs |-> "select"]
    /\ \E prog \in [RaceProcs -> {"workflow", "updater"}], n \in [RaceProcs -> 0..MaxRacePanels] :
          rloc = [p \in RaceProcs |-> RaceLocals(prog[p], p, n[p])]

RaceFrame ==
    UNCHANGED <<diffVars, last, wfVars, smVars, pmVars, amVars, mainVars, exit_code, round_log,
                attempt>>

\* existing = table('chapters').select('id').eq(...).eq(...).execute()
RaceSelect(p) ==
    /\ rpc[p] = "select"
    /\ \E existing \in {SelectChapter(Db, TheManga, RaceNumber)} :
        /\ rloc' = [rloc EXCEPT ![p].found = existing # <<>>,
                                ![p].chapter_id = IF existing # <<>> THEN existing[1].id
                                                  ELSE 0]
        /\ rpc' = [rpc EXCEPT ![p] = IF existing # <<>> THEN "delete" ELSE "insert"]
    /\ UNCHANGED storeVars
    /\ RaceFrame

\* table('panels').delete().eq('chapter_id', chapter_id).execute()
RaceDelete(p) ==
    /\ rpc[p] = "delete"
    /\ SetDb(DeletePanels(Db, rloc[p].chapter_id))
    /\ rpc' = [rpc EXCEPT ![p] = "update"]
    /\ UNCHANGED rloc
    /\ RaceFrame

\* table('chapters').update({...}).eq('id', chapter_id).execute()
RaceUpdate(p) ==
    /\ rpc[p] = "update"
    /\ SetDb(UpdateChapter(Db, rloc[p].chapter_id, rloc[p].title, Len(rloc[p].image_urls)))
    /\ rpc' = [rpc EXCEPT ![p] = "panels"]
    /\ UNCHANGED rloc
    /\ RaceFrame

\* result = table('chapters').insert({...}).execute()
RaceInsert(p) ==
    /\ rpc[p] = "insert"
    /\ SetDb(InsertChapter(Db, TheManga, RaceNumber, rloc[p].title, Len(rloc[p].image_urls)))
    /\ rloc' = [rloc EXCEPT ![p].chapter_id = NewChapterId(Db), ![p].inserted = TRUE]
    /\ rpc' = [rpc EXCEPT ![p] = "panels"]
    /\ RaceFrame

\* if panels_data: table('panels').insert(panels_data).execute(); the
\* updater's version then returns (chapter_id, True).
RacePanels(p) ==
    /\ rpc[p] = "panels"
    /\ SetDb(IF rloc[p].image_urls # <<>>
             THEN InsertPanels(Db, rloc[p].chapter_id, rloc[p].image_urls) ELSE Db)
    /\ rpc' = [rpc EXCEPT ![p] = IF rloc[p].prog = "workflow" THEN "stats" ELSE "done"]
    /\ rloc' = [rloc EXCEPT ![p].saved = rloc[p].prog = "updater"]
    /\ RaceFrame

\* update_manga_stats(manga_id); return chapter_id, True
RaceStats(p) ==
    /\ rpc[p] = "stats"
    /\ \E stats_fail \in StatsFailures :
          SetDb(update_manga_stats(Db, TheManga, stats_fail).db)
    /\ rpc' = [rpc EXCEPT ![p] = "done"]
    /\ rloc' = [rloc EXCEPT ![p].saved = TRUE]
    /\ RaceFrame

\* The store call the invocation is at raises: except Exception, return
\* (None, False).
RaceRaise(p) ==
    /\ \/ rpc[p] \in {"select", "delete", "update", "insert"}
       \/ rpc[p] = "panels" /\ rloc[p].image_urls # <<>>
    /\ rpc' = [rpc EXCEPT ![p] = "done"]
    /\ rloc' = [rloc EXCEPT ![p].saved = FALSE, ![p].chapter_id = 0]
    /\ UNCHANGED storeVars
    /\ RaceFrame

\* The invocation upserts the chapter once more (a retry round, a forced
\* update, the next scheduled run).
RaceAgain(p) ==
    /\ rpc[p] = "done"
    /\ rloc[p].calls < MaxRaceCalls
    /\ rpc' = [rpc EXCEPT ![p] = "select"]
    /\ rloc' = [rloc EXCEPT ![p].calls = @ + 1, ![p].found = FALSE,
                            ![p].chapter_id = 0, ![p].saved = FALSE]
    /\ UNCHANGED storeVars
    /\ RaceFrame

RaceNext ==
    \E p \in RaceProcs :
        \/ RaceSelect(p) \/ RaceDelete(p) \/ RaceUpdate(p) \/ RaceInsert(p)
        \/ RacePanels(p) \/ RaceStats(p) \/ RaceRaise(p) \/ RaceAgain(p)

SpecRace == RaceInit /\ [][RaceNext]_vars

\* The chapter rows of the key the invocations upsert.
RaceRows == SelectChapter(Db, TheManga, RaceNumber)

\* C17: when two invocations upsert the same (manga_id, chapter_number)
\* concurrently and each inserted a chapter row (both selects found no row
\* before either insert), the store holds two chapter rows for that key,
\* and keeps holding them whatever the invocations do afterwards: the rest
\* of the two upserts and the upserts of the key that follow.
C17_ConcurrentUpsertsDuplicate ==
    (\A p \in RaceProcs : rloc[p].inserted) => Len(RaceRows) >= 2

\* Both invocations inserted, each then upserted the key once more, and
\* the key still has two rows.
C17_Witness ==
    /\ \A p \in RaceProcs :
          rloc[p].inserted /\ rpc[p] = "done" /\ rloc[p].calls = MaxRaceCalls /\ rloc[p].saved
    /\ Len(RaceRows) = 2

\* ------------------------------------------------------------------------
\* Specification SpecUpdater: runs of auto_updater.py, one after the other,
\* on one store, for one manga of the mangas table
\* ------------------------------------------------------------------------

\* Longest source page of the manga.
MaxPmLinks == 2

\* The i-th link of the source page: a link that is not a chapter, then
\* the chapters 2 and 1, each linked again further down.
PmLink(i) == IF i = 1 THEN <<"x">> ELSE IF i % 2 = 0 THEN <<"2">> ELSE <<"1">>
PmPages == {[i \in 1..n |-> PmLink(i)] : n \in 0..(MaxPmLinks + 1)}

\* auto_updater.scrape_chapter_images on a fetch of the chapter page: the
\* URLs of the img elements that have one; success is that of the request.
scrape_chapter_images(fetch) ==
    [image_urls |-> IF fetch.ok THEN SelectSeq(fetch.imgs, LAMBDA u : u # NoSrc) ELSE <<>>,
     success |-> fetch.ok]

\* A process_manga that reports an empty source listing as 'up_to_date'.
ListingStatus_emptyIsUpToDate(available, missing) ==
    IF missing = <<>> THEN "up_to_date" ELSE "none"

\* The status process_manga returns before its loop ("none": it goes on),
\* the reason of a 'failed' status standing for it.
ListingStatus(available, missing) ==
    IF DOMAIN available = {} THEN "No chapters found"
    ELSE IF missing = <<>> THEN "up_to_date"
    ELSE "none"

\* The body of one iteration of the loop of process_manga for this
\* chapter: the store it leaves, whether the chapter was saved or failed,
\* and whether the fetch gave images.
PmIterationOutcomes(chapter) ==
    UNION { LET sc == scrape_chapter_images(fetch)
                fetched == IF sc.success /\ sc.image_urls # <<>> THEN "ok" ELSE "failed"
            IN IF ShouldSave(sc.success, sc.image_urls)
               THEN { [db |-> r.db, result |-> IF r.saved THEN "saved" ELSE "failed",
                       fetch |-> fetched]
                      : r \in { updater_save_chapter_to_supabase(
                                    Db, TheManga, chapter.number, chapter.text,
                                    sc.image_urls, fail)
                                : fail \in CallsMade(chapter.number, sc.image_urls)
                                           \cup {"none"} } }
               ELSE { [db |-> Db, result |-> "failed", fetch |-> fetched] }
          : fetch \in WfFetches }

PmInit ==
    /\ StoreRows
    /\ last = NoOp
    /\ page \in PmPages
    /\ FORCE_UPDATE \in BOOLEAN
    /\ lister = "none"
    /\ chapter_links = <<>>
    /\ available_chapters = <<>>
    /\ all_chapters = <<>>
    /\ existing_chapters = {}
    /\ missing_chapter_list = <<>>
    /\ dpc = "start"
    /\ pm_pos = 1
    /\ pm_success_count = 0
    /\ pm_failed_count = 0
    /\ pm_result = "none"
    /\ pm_runs = 1
    /\ WfIdle /\ SmIdle /\ AmIdle /\ MainIdle /\ RaceIdle /\ ObsIdle

\* process_manga up to its loop: existing chapters, available chapters,
\* work list.
PmStart ==
    /\ dpc = "start"
    /\ \E read_ok \in BOOLEAN, fetch_ok \in BOOLEAN :
        \E existing \in {get_existing_chapters_from_supabase(chapters, TheManga, read_ok)},
           available \in {get_available_chapters_from_source(page, fetch_ok)} :
            \E missing \in {find_missing_chapters(existing, available, FORCE_UPDATE)} :
                /\ existing_chapters' = existing
                /\ chapter_links' = IF fetch_ok THEN float_chapter_links(page, 1) ELSE <<>>
                /\ available_chapters' = available
                /\ lister' = "auto_updater"
                /\ missing_chapter_list' = IF DOMAIN available = {} THEN <<>> ELSE missing
                /\ pm_result' = ListingStatus(available, missing)
                /\ dpc' = IF pm_result' = "none" THEN "loop" ELSE "done"
    /\ UNCHANGED <<storeVars, last, wfVars, smVars, amVars, mainVars, raceVars, exit_code,
                   round_log, attempt, page, FORCE_UPDATE, all_chapters, pm_pos,
                   pm_success_count, pm_failed_count, pm_runs>>

\* One iteration of the loop of process_manga; after the last one,
\* update_manga_stats and the return with status 'updated'.
PmChapter ==
    /\ dpc = "loop"
    /\ \E o \in PmIterationOutcomes(missing_chapter_list[pm_pos]) :
        /\ pm_success_count' = pm_success_count + (IF o.result = "saved" THEN 1 ELSE 0)
        /\ pm_failed_count' = pm_failed_count + (IF o.result = "failed" THEN 1 ELSE 0)
        /\ attempt' = [n |-> attempt.n + 1, program |-> "auto_updater", fetch |-> o.fetch,
                       recorded |-> pm_failed_count' = pm_failed_count + 1]
        /\ IF pm_pos < Len(missing_chapter_list)
           THEN /\ SetDb(o.db)
                /\ pm_pos' = pm_pos + 1
                /\ UNCHANGED <<dpc, pm_result>>
           ELSE /\ \E stats_fail \in StatsFailures :
                      SetDb(update_manga_stats(o.db, TheManga, stats_fail).db)
                /\ pm_pos' = 1
                /\ dpc' = "done"
                /\ pm_result' = "updated"
    /\ UNCHANGED <<last, wfVars, smVars, amVars, mainVars, raceVars, exit_code, round_log,
                   page, FORCE_UPDATE, lister, chapter_links, available_chapters,
                   all_chapters, existing_chapters, missing_chapter_list, pm_runs>>

\* auto_updater.main after process_manga returned: the summary, then the
\* end of main; the process ends with status 0.
PmExit ==
    /\ dpc = "done"
    /\ exit_code = NotExited
    /\ exit_code' = 0
    /\ UNCHANGED <<storeVars, diffVars, last, wfVars, smVars, pmVars, amVars, mainVars,
                   raceVars, round_log, attempt>>

\* The next scheduled run of auto_updater.py, on the store as it is.
PmRunAgain ==
    /\ dpc = "done"
    /\ exit_code # NotExited
    /\ pm_runs < MaxRuns
    /\ pm_runs' = pm_runs + 1
    /\ exit_code' = NotExited
    /\ dpc' = "start"
    /\ lister' = "none"
    /\ chapter_links' = <<>>
    /\ available_chapters' = <<>>
    /\ existing_chapters' = {}
    /\ missing_chapter_list' = <<>>
    /\ pm_pos' = 1
    /\ pm_success_count' = 0
    /\ pm_failed_count' = 0
    /\ pm_result' = "none"
    /\ attempt' = NoAttempt
    /\ UNCHANGED <<storeVars, last, wfVars, smVars, amVars, mainVars, raceVars, round_log,
                   page, FORCE_UPDATE, all_chapters>>

PmNext == PmStart \/ PmChapter \/ PmExit \/ PmRunAgain

SpecUpdater == PmInit /\ [][PmNext]_vars

\* ------------------------------------------------------------------------
\* Properties of the updater (SpecUpdater)
\* ------------------------------------------------------------------------

\* process_manga has built its work list and processed no chapter of it
\* yet, so the store is the one the list was built from.
PmListBuilt ==
    \/ dpc = "loop" /\ pm_pos = 1
    \/ dpc = "done" /\ pm_result = "up_to_date"

PmInWorkList(number) ==
    \E i \in DOMAIN missing_chapter_list : missing_chapter_list[i].number = number

\* The chapter rows of the manga with this number.
PmRows(number) == SelectChapter(Db, TheManga, number)

\* A chapter row whose panels are missing or fewer than its total_panels.
IncompleteRow(r) ==
    LET mine == {i \in DOMAIN panels : panels[i].chapter_id = r.id}
    IN mine = {} \/ Cardinality(mine) < r.total_panels

\* C16: when a run of auto_updater left a chapter incompletely persisted
\* (its row written, its panels missing or fewer than total_panels), the
\* next run without FORCE_UPDATE, the chapter still being listed by the
\* source, has the chapter in its work list.
C16_IncompleteChapterIsRetaken ==
    (PmListBuilt /\ pm_runs > 1 /\ ~FORCE_UPDATE) =>
        \A number \in DOMAIN available_chapters :
            (\E i \in DOMAIN PmRows(number) : IncompleteRow(PmRows(number)[i]))
                => PmInWorkList(number)

\* The store holds the chapter of the manga, every row of it complete.
CompleteInStore(number) ==
    /\ PmRows(number) # <<>>
    /\ \A i \in DOMAIN PmRows(number) : ~IncompleteRow(PmRows(number)[i])

\* C11: when process_manga runs without FORCE_UPDATE and the source lists
\* only chapters the store holds complete, the work list is empty, the
\* outcome is 'up_to_date' and the run writes nothing to chapters, panels
\* or the manga record, neither while listing nor afterwards.
C11_NothingNewIsUpToDate ==
    [][/\ (/\ dpc = "start" /\ dpc' # "start"
           /\ ~FORCE_UPDATE
           /\ DOMAIN available_chapters' # {}
           /\ \A number \in DOMAIN available_chapters' : CompleteInStore(number))
          => /\ missing_chapter_list' = <<>>
             /\ dpc' = "done"
             /\ pm_result' = "up_to_date"
             /\ UNCHANGED storeVars
       /\ (dpc = "done" /\ pm_result = "up_to_date" /\ dpc' = "done")
          => UNCHANGED storeVars]_vars

\* The run's read of the existing chapters failed: it got the empty set
\* although the store holds chapter rows of the manga (it always does
\* here: the store starts with chapter 2 and no row is ever deleted).
ReadFailed ==
    /\ lister = "auto_updater"
    /\ dpc \in {"loop", "done"}
    /\ existing_chapters = {}
    /\ ChaptersOf(Db, TheManga) # <<>>

\* The panel rows of each chapter row of the manga have distinct numbers.
PanelsNotDuplicated ==
    \A r \in SeqRange(ChaptersOf(Db, TheManga)) :
        \A i, j \in PanelIdx(r.id) :
            panels[i].panel_number = panels[j].panel_number => i = j

\* C29: a read of the existing chapters that fails yields the empty set and
\* no error, so a run of process_manga without FORCE_UPDATE has every
\* chapter the source lists in its work list, once each; the chapters
\* already persisted are upserted again over their own row: the manga gets
\* no second row for a chapter number and no second panel for a panel
\* number of a chapter.
C29_FailedReadResyncsEverything ==
    (ReadFailed /\ ~FORCE_UPDATE) =>
        /\ pm_result # "up_to_date"
        /\ {missing_chapter_list[i].number : i \in DOMAIN missing_chapter_list}
              = DOMAIN available_chapters
        /\ Len(missing_chapter_list) = Cardinality(DOMAIN available_chapters)
        /\ \A number \in DOMAIN available_chapters : Len(PmRows(number)) <= 1
        /\ PanelsNotDuplicated

\* Such a run saved chapter 2, which the store held before it: the row is
\* the same one, with the title and the panels of this run.
C29_Witness ==
    /\ ReadFailed
    /\ ~FORCE_UPDATE
    /\ dpc = "done"
    /\ pm_result = "updated"
    /\ Len(PmRows(PyInt(2))) = 1
    /\ chapters[2].title # "t1"
    /\ PanelIdx(2) # {}

\* ------------------------------------------------------------------------
\* add_manga_scraper.main from the chapter list on
\* ------------------------------------------------------------------------

\* re.search(r'chapter[- ]?(\d+(?:\.\d+)?)', ...).group(1) on what follows
\* 'chapter-': digits, then a dot and digits if there are any; <<>> when
\* there is no match.
MatchNumber(href) ==
    LET ip == MatchPrefix(href, Digits)
        rest == SubSeq(href, Len(ip) + 1, Len(href))
        fp == IF rest # <<>> /\ rest[1] = "." THEN MatchPrefix(Tail(rest), Digits)
              ELSE <<>>
    IN IF ip = <<>> THEN <<>>
       ELSE IF fp = <<>> THEN ip
       ELSE ip \o <<".">> \o fp

\* chapters.sort(key=lambda x: x['chapter_number']): stable.
RECURSIVE SortByNumber(_)
SortByNumber(chs) ==
    IF chs = <<>> THEN <<>>
    ELSE LET rest == SortByNumber(Tail(chs))
             before == SelectSeq(rest, LAMBDA c : NumLt(c.number, chs[1].number))
             after == SelectSeq(rest, LAMBDA c : ~NumLt(c.number, chs[1].number))
         IN before \o <<chs[1]>> \o after

\* The chapter elements of scrape_chapter_list that carry a number.
RECURSIVE am_chapter_links(_, _)
am_chapter_links(links, i) ==
    IF i > Len(links) THEN <<>>
    ELSE LET tok == MatchNumber(links[i])
         IN (IF tok # <<>> THEN <<Item(links[i], PyFloat(tok), i)>> ELSE <<>>)
            \o am_chapter_links(links, i + 1)

\* add_manga_scraper.scrape_chapter_list: the first max_chapters elements
\* (all when it is 0), sorted by number; [] when the page fails to load.
scrape_chapter_list(links, max_chapters, fetch_ok) ==
    IF ~fetch_ok THEN <<>>
    ELSE SortByNumber(am_chapter_links(
            IF max_chapters > 0 /\ max_chapters < Len(links)
            THEN SubSeq(links, 1, max_chapters) ELSE links, 1))

\* An img element whose URL does not start with http or holds one of
\* 'logo', 'icon', 'banner', 'ad'.
SkippedSrc == [v |-> 0, i |-> 1]

\* add_manga_scraper.scrape_chapter_panels: [] on any error.
scrape_chapter_panels(fetch) ==
    IF fetch.ok THEN SelectSeq(fetch.imgs, LAMBDA u : u # NoSrc /\ u # SkippedSrc)
    ELSE <<>>

AmFetches == WfFetches \cup {[ok |-> TRUE, imgs |-> <<SkippedSrc>> \o UrlList(1, n)] : n \in 0..1}

\* The body of one iteration of the loop of main for this chapter.
AmIterationOutcomes(chapter) ==
    UNION { LET panel_urls == scrape_chapter_panels(fetch)
            IN IF panel_urls = <<>>
               THEN { [db |-> Db, result |-> "failed", fetch |-> "failed"] }
               ELSE UNION { { [db |-> r.db,
                               result |-> IF r.chapter_id # 0 THEN "saved" ELSE "failed",
                               fetch |-> "ok"]
                              : r \in { add_chapter_to_db(Db, TheManga, chapter.number,
                                                          chapter.text, panel_urls, fail,
                                                          panel_fail)
                                        : panel_fail \in IF fail = "none"
                                                         THEN SUBSET DOMAIN panel_urls
                                                         ELSE {{}} } }
                            : fail \in (CallsMade(chapter.number, panel_urls) \ {"panels"})
                                       \cup {"none"} }
          : fetch \in AmFetches }

AmInit ==
    /\ StoreRows
    /\ last = NoOp
    /\ page \in PmPages
    /\ FORCE_UPDATE = FALSE
    /\ lister = "none"
    /\ chapter_links = <<>>
    /\ available_chapters = <<>>
    /\ all_chapters = <<>>
    /\ existing_chapters = {}
    /\ missing_chapter_list = <<>>
    /\ dpc = "idle"
    /\ apc = "start"
    /\ am_chapters = <<>>
    /\ am_pos = 1
    /\ am_success_count = 0
    /\ am_error_count = 0
    /\ WfIdle /\ SmIdle /\ PmIdle /\ MainIdle /\ RaceIdle /\ ObsIdle

\* main: the chapter list; sys.exit(1) when it is empty.
AmStart ==
    /\ apc = "start"
    /\ \E fetch_ok \in BOOLEAN, max_chapters \in 0..1 :
        \E chs \in {scrape_chapter_list(page, max_chapters, fetch_ok)} :
            /\ am_chapters' = chs
            /\ apc' = IF chs = <<>> THEN "done" ELSE "loop"
            /\ exit_code' = IF chs = <<>> THEN 1 ELSE NotExited
    /\ UNCHANGED <<storeVars, diffVars, last, wfVars, smVars, pmVars, raceVars,
                   round_log, attempt, am_pos, am_success_count, am_error_count,
                   mainVars>>

\* One iteration of the loop of main; after the last one, the summary and
\* the end of main: the process ends with status 0.
AmChapter ==
    /\ apc = "loop"
    /\ \E o \in AmIterationOutcomes(am_chapters[am_pos]) :
        /\ SetDb(o.db)
        /\ am_success_count' = am_success_count + (IF o.result = "saved" THEN 1 ELSE 0)
        /\ am_error_count' = am_error_count + (IF o.result = "failed" THEN 1 ELSE 0)
        /\ attempt' = [n |-> attempt.n + 1, program |-> "add_manga_scraper",
                       fetch |-> o.fetch,
                       recorded |-> am_error_count' = am_error_count + 1]
    /\ IF am_pos < Len(am_chapters)
       THEN am_pos' = am_pos + 1 /\ UNCHANGED <<apc, exit_code>>
       ELSE am_pos' = 1 /\ apc' = "done" /\ exit_code' = 0
    /\ UNCHANGED <<diffVars, last, wfVars, smVars, pmVars, raceVars, round_log,
                   am_chapters, mainVars>>

AmNext == AmStart \/ AmChapter

\* ------------------------------------------------------------------------
\* Specification SpecEngine: one of the four programs runs, from its start
\* ------------------------------------------------------------------------

EngineInit == WfInit \/ SmInit \/ PmInit \/ AmInit

EngineNext == WfNext \/ SmNext \/ PmNext \/ AmNext

SpecEngine == EngineInit /\ [][EngineNext]_vars

\* ------------------------------------------------------------------------
\* Properties of the programs as processes (SpecEngine)
\* ------------------------------------------------------------------------

\* The program processed its work list to the end, or found it empty.
RanToEnd ==
    \/ wpc = "done" /\ wf_result = "summary"
    \/ dpc = "done" /\ pm_result \in {"updated", "up_to_date"}
    \/ spc = "done" /\ sm_result \in {"summary", "All chapters already uploaded"}

\* A chapter of the work list ended the run as failed.
SomeUnitFailed ==
    \/ wpc = "done" /\ wf_result = "summary" /\ failed_chapters # <<>>
    \/ dpc = "done" /\ pm_result = "updated" /\ pm_failed_count > 0
    \/ spc = "done" /\ sm_result = "summary" /\ sm_failed_chapters # <<>>

\* C13: when scraper_workflow.main, auto_updater.main or
\* scrape_new_chapters.main has run its work list to the end, the exit
\* status of the process is a failure status exactly when a chapter of the
\* work list ended as failed, and 0 when none did (an empty work list
\* included).
C13_ExitStatusTellsFailure ==
    (exit_code # NotExited /\ RanToEnd) => (exit_code # 0 <=> SomeUnitFailed)

\* The listing step of process_manga, of scrape_new_chapters_only, found
\* no chapter.
PmListsNothing == dpc = "start" /\ dpc' # "start" /\ DOMAIN available_chapters' = {}
SmListsNothing == spc = "start" /\ spc' # "start" /\ all_chapters' = <<>>

\* C12: when the source returns an empty chapter list, process_manga
\* returns status 'failed' with the reason 'No chapters found' and
\* scrape_new_chapters_only returns success False with 'Could not fetch
\* chapter list' (main then exits 1), neither being the 'up to date'
\* outcome; no chapter is fetched, and no chapter row, panel row, manga
\* record, ledger row or asset is written or marked failed, up to the end
\* of that run.
C12_EmptyListingFailsWithoutWrites ==
    [][/\ PmListsNothing
          => /\ dpc' = "done"
             /\ pm_result' = "No chapters found"
             /\ pm_result' # "up_to_date"
             /\ UNCHANGED <<storeVars, attempt, pm_failed_count, pm_success_count>>
       /\ (dpc = "done" /\ pm_result = "No chapters found" /\ pm_runs' = pm_runs)
          => UNCHANGED <<storeVars, attempt, pm_failed_count, pm_result>>
       /\ SmListsNothing
          => /\ spc' = "done"
             /\ sm_result' = "Could not fetch chapter list"
             /\ sm_result' # "All chapters already uploaded"
             /\ UNCHANGED <<storeVars, ledger, cloud, sm_last, sm_failed_chapters>>
       /\ (spc = "done" /\ sm_result = "Could not fetch chapter list" /\ runs' = runs)
          => /\ UNCHANGED <<storeVars, ledger, cloud, sm_last, sm_failed_chapters>>
             /\ exit_code' = 1]_vars

\* A second run of auto_updater finds the source listing empty and ends
\* 'No chapters found', the store holding what the first run saved.
C12_Witness ==
    /\ dpc = "done"
    /\ pm_result = "No chapters found"
    /\ pm_runs = 2
    /\ exit_code # NotExited
    /\ Len(ChaptersOf(Db, TheManga)) >= 2

\* C20: in the loops of scrape_manga_to_supabase, process_manga and
\* add_manga_scraper.main, an attempt of a chapter whose fetch failed or
\* gave no image records the chapter as failed (failed list, failed_count,
\* error_count) and leaves the chapters and panels tables as they were.
C20_FailedFetchWritesNothing ==
    [][(attempt'.n = attempt.n + 1 /\ attempt'.fetch = "failed")
          => (UNCHANGED <<chapters, panels>> /\ attempt'.recorded)]_vars

\* A forced run of auto_updater whose only chapter is stored with its
\* panels: the fetch failed, the chapter was counted as failed, and the
\* row and its panels are still there.
C20_Witness ==
    /\ attempt.program = "auto_updater"
    /\ attempt.fetch = "failed"
    /\ attempt.recorded
    /\ FORCE_UPDATE
    /\ dpc = "done"
    /\ pm_failed_count = 1
    /\ Len(missing_chapter_list) = 1
    /\ CompleteInStore(missing_chapter_list[1].number)

\* The manga's totals are those of its chapter rows.
StatsMatch(manga_id) ==
    LET mine == {r \in SeqRange(chapters) : r.manga_id = manga_id}
    IN /\ mangas[manga_id].total_chapters = Cardinality(mine)
       /\ mangas[manga_id].total_panels = SumOverRows(mine)

\* A sync of the series has finished: scrape_manga_to_supabase printed its
\* summary, or process_manga returned 'updated' (its work list was not
\* empty).
SyncFinished ==
    \/ WfSummarised
    \/ dpc = "done" /\ pm_result = "updated"

\* C22: when a sync of a series has finished, the manga's total_chapters is
\* the number of chapter rows of the manga and its total_panels the sum of
\* their total_panels, also when an upsert failed after it had written or
\* changed its chapter row.
C22_TotalsMatchWhenSyncFinished ==
    SyncFinished => StatsMatch(TheManga)

\* C21: a chapter that fails does not keep the chapters after it in the
\* work list from being processed. Without KeyboardInterrupt, at the end of
\* scrape_manga_to_supabase every chapter of the work list was attempted at
\* least once and every chapter never saved is in the failed list; at the
\* end of the loops of process_manga and of scrape_new_chapters_only the
\* saved and failed tallies together count every chapter of the work list.
C21_FailureDoesNotStopTheLoop ==
    /\ WfCompleted =>
          /\ \A i \in DOMAIN wf_chapters : attempts[i] >= 1
          /\ \A i \in NeverSaved : TimesInFailedList(i) = 1
    /\ (dpc = "done" /\ pm_result = "updated") =>
          pm_success_count + pm_failed_count = Len(missing_chapter_list)
    /\ (spc = "done" /\ sm_result = "summary") =>
          /\ sm_success_count + Len(sm_failed_chapters) = Len(new_chapters)
          /\ \A i \in DOMAIN sm_failed_chapters :
                \E j \in DOMAIN new_chapters : new_chapters[j].number = sm_failed_chapters[i]

\* A run in which the first chapter of the work list failed in every round
\* and the second was saved in the first pass.
C21_Witness ==
    /\ WfCompleted
    /\ Len(wf_chapters) = 2
    /\ 1 \in NeverSaved
    /\ 2 \in saved_ever
    /\ attempts[2] = 1

\* ------------------------------------------------------------------------
\* Specification SpecMain: the start of each process (its configuration
\* from the environment, up to its first store writes and source fetches)
\* and auto_updater.main over the mangas of the store
\* ------------------------------------------------------------------------

\* Most mangas the store returns.
MaxMangas == 2

\* not value: the variable is not set, or set to the empty string.
Missing(value) == value = Unset \/ value = <<>>

\* Some value of a variable that is set.
SetValue == <<"v">>

NoVars ==
    [program |-> "none", SUPABASE_URL |-> Unset, SUPABASE_KEY |-> Unset,
     MANGA_URL |-> Unset, OPERATION |-> Unset, MANGA_SLUG |-> Unset,
     MANGA_TITLE |-> Unset, GENRES |-> Unset]

\* auto_updater reads SUPABASE_URL and SUPABASE_KEY.
AuEnvirons ==
    { [NoVars EXCEPT !.program = "auto_updater", !.SUPABASE_URL = u, !.SUPABASE_KEY = k]
      : u \in {Unset, <<>>, SetValue}, k \in {Unset, <<>>, SetValue} }

\* scraper_workflow reads MANGA_URL (here: unset, empty, a URL without
\* '/manga/<slug>', a manga URL) and OPERATION; its SUPABASE_URL and
\* SUPABASE_KEY are literals of the source.
BadUrl == <<"b">>
WfMainEnvirons ==
    { [NoVars EXCEPT !.program = "scraper_workflow", !.MANGA_URL = u, !.OPERATION = o]
      : u \in {Unset, <<>>, BadUrl, SetValue},
        o \in {Unset, <<>>, <<"scrape_all">>, <<"verify">>, <<"bogus">>} }

\* add_manga_scraper reads SUPABASE_URL, SUPABASE_KEY, MANGA_SLUG,
\* MANGA_TITLE and GENRES.
AmEnvirons ==
    { [NoVars EXCEPT !.program = "add_manga_scraper", !.SUPABASE_URL = u,
                     !.SUPABASE_KEY = k, !.MANGA_SLUG = sl, !.MANGA_TITLE = t,
                     !.GENRES = g]
      : u \in {Unset, SetValue}, k \in {Unset, SetValue},
        sl \in {Unset, <<>>, SetValue}, t \in {Unset, SetValue},
        g \in {Unset, SetValue} }

\* The rows of the mangas table as a select returns them.
MangaRow(id) ==
    [id |-> id, title |-> IF id = 1 THEN "A" ELSE IF id = 2 THEN "B" ELSE "C"]

RECURSIVE Distinct(_)
Distinct(seq) ==
    \/ seq = <<>>
    \/ /\ \A i \in 2..Len(seq) : seq[i] # seq[1]
       /\ Distinct(Tail(seq))

MangaLists ==
    { [i \in DOMAIN ids |-> MangaRow(ids[i])]
      : ids \in {q \in SeqsUpTo(1..MaxMangas, MaxMangas) : Distinct(q)} }

\* get_all_mangas_from_supabase: [] when the select raises.
get_all_mangas_from_supabase(rows, read_ok) == IF read_ok THEN rows ELSE <<>>

\* What a call of process_manga returns, by return statement, with the
\* store writes and source fetches the call made: the outer handler's
\* 'failed' with str(e) as reason; 'failed' for an empty source listing;
\* 'up_to_date'; 'updated' after the loop over a work list that is not
\* empty (new saved, failed not saved, update_manga_stats written or not).
process_manga(manga) ==
    { [result |-> [manga |-> manga.title, status |-> "failed", reason |-> "str(e)",
                   new_chapters |-> 0, failed_chapters |-> 0],
       writes |-> 0, fetches |-> f] : f \in 0..1 }
    \cup
    { [result |-> [manga |-> manga.title, status |-> "failed",
                   reason |-> "No chapters found",
                   new_chapters |-> 0, failed_chapters |-> 0],
       writes |-> 0, fetches |-> 1],
      [result |-> [manga |-> manga.title, status |-> "up_to_date", reason |-> "none",
                   new_chapters |-> 0, failed_chapters |-> 0],
       writes |-> 0, fetches |-> 1] }
    \cup
    UNION { { [result |-> [manga |-> manga.title, status |-> "updated",
                             reason |-> "none",
                             new_chapters |-> n, failed_chapters |-> k],
                writes |-> n + st, fetches |-> 1 + n + k]
              : k \in (IF n = 0 THEN 1..1 ELSE 0..1), st \in 0..1 }
            : n \in 0..1 }

\* A summary that leaves out the results that carry a reason.
CountStatus_withoutReason(results, status) ==
    Cardinality({i \in DOMAIN results :
                    results[i].status = status /\ results[i].reason = "none"})

\* sum(1 for r in results if r['status'] == status)
CountStatus(results, status) ==
    Cardinality({i \in DOMAIN results : results[i].status = status})

\* get_manga_slug_from_url: None unless the URL holds '/manga/<slug>'.
get_manga_slug_from_url(manga_url) == IF manga_url = SetValue THEN SetValue ELSE Unset

MainInit ==
    /\ StoreRows /\ last = NoOp
    /\ DiffIdle /\ WfIdle /\ SmIdle /\ PmIdle /\ AmIdle /\ RaceIdle /\ ObsIdle
    /\ mpc = "config"
    /\ environ \in AuEnvirons \cup WfMainEnvirons \cup AmEnvirons
    /\ effects = NoEffects
    /\ au_mangas = <<>>
    /\ au_results = <<>>
    /\ au_summary = NoSummary

MainFrame ==
    UNCHANGED <<storeVars, diffVars, last, wfVars, smVars, pmVars, amVars, raceVars,
                round_log, attempt>>

\* sys.exit(status), or the end of the script (status 0).
Exits(status) ==
    /\ mpc' = "exited"
    /\ exit_code' = status

\* auto_updater, module level: the two credentials or sys.exit(1).
AuImport ==
    /\ mpc = "config"
    /\ environ.program = "auto_updater"
    /\ IF Missing(environ.SUPABASE_URL) \/ Missing(environ.SUPABASE_KEY)
       THEN Exits(1)
       ELSE mpc' = "au_main" /\ UNCHANGED exit_code
    /\ UNCHANGED <<environ, effects, au_mangas, au_results, au_summary>>
    /\ MainFrame

\* auto_updater.main up to its loop: the mangas of the store, or
\* sys.exit(1) when there is none (or the select failed).
AuGetMangas ==
    /\ mpc = "au_main"
    /\ \E rows \in MangaLists, read_ok \in BOOLEAN :
        \E mangas_ \in {get_all_mangas_from_supabase(rows, read_ok)} :
            IF mangas_ = <<>>
            THEN Exits(1) /\ UNCHANGED au_mangas
            ELSE /\ au_mangas' = mangas_
                 /\ mpc' = "au_loop"
                 /\ UNCHANGED exit_code
    /\ UNCHANGED <<environ, effects, au_results, au_summary>>
    /\ MainFrame

\* One iteration of main's loop: result = process_manga(manga);
\* results.append(result).
AuProcessManga ==
    /\ mpc = "au_loop"
    /\ \E r \in process_manga(au_mangas[Len(au_results) + 1]) :
        /\ au_results' = Append(au_results, r.result)
        /\ effects' = [writes |-> effects.writes + r.writes,
                       fetches |-> effects.fetches + r.fetches]
    /\ mpc' = IF Len(au_results) + 1 < Len(au_mangas) THEN "au_loop" ELSE "au_summary"
    /\ UNCHANGED <<environ, au_mangas, au_summary, exit_code>>
    /\ MainFrame

\* main's summary; the script ends.
AuSummary ==
    /\ mpc = "au_summary"
    /\ au_summary' = [processed |-> Len(au_results),
                      up_to_date |-> CountStatus(au_results, "up_to_date"),
                      updated |-> CountStatus(au_results, "updated"),
                      failed |-> CountStatus(au_results, "failed")]
    /\ Exits(0)
    /\ UNCHANGED <<environ, effects, au_mangas, au_results>>
    /\ MainFrame

\* scraper_workflow.main: MANGA_URL, OPERATION and the slug of the URL, or
\* sys.exit(1).
WfMainConfig ==
    /\ mpc = "config"
    /\ environ.program = "scraper_workflow"
    /\ IF \/ Missing(environ.MANGA_URL) \/ Missing(environ.OPERATION)
          \/ Missing(get_manga_slug_from_url(environ.MANGA_URL))
       THEN Exits(1)
       ELSE mpc' = "wf_dispatch" /\ UNCHANGED exit_code
    /\ UNCHANGED <<environ, effects, au_mangas, au_results, au_summary>>
    /\ MainFrame

\* scraper_workflow.main, the operation: a scrape saves the manga and, if
\* that succeeded, fetches the chapter list (and goes on as SpecWorkflow
\* describes); verify reads the store; any other operation is an error.
WfMainDispatch ==
    /\ mpc = "wf_dispatch"
    /\ \/ /\ environ.OPERATION = <<"scrape_all">>
          /\ \E manga_ok \in BOOLEAN :
                effects' = IF manga_ok
                           THEN [writes |-> effects.writes + 1,
                                 fetches |-> effects.fetches + 1]
                           ELSE effects
          /\ Exits(0)
       \/ /\ environ.OPERATION = <<"verify">>
          /\ \E read_ok \in BOOLEAN : Exits(IF read_ok THEN 0 ELSE 1)
          /\ UNCHANGED effects
       \/ /\ environ.OPERATION \notin {<<"scrape_all">>, <<"verify">>}
          /\ Exits(1)
          /\ UNCHANGED effects
    /\ UNCHANGED <<environ, au_mangas, au_results, au_summary>>
    /\ MainFrame

\* add_manga_scraper.main up to init_supabase, which raises without the
\* two credentials: sys.exit(1).
AmMainConfig ==
    /\ mpc = "config"
    /\ environ.program = "add_manga_scraper"
    /\ IF Missing(environ.SUPABASE_URL) \/ Missing(environ.SUPABASE_KEY)
       THEN Exits(1)
       ELSE mpc' = "am_genres" /\ UNCHANGED exit_code
    /\ UNCHANGED <<environ, effects, au_mangas, au_results, au_summary>>
    /\ MainFrame

\* if genres_str: create_or_get_genres, which inserts the genres the store
\* does not hold and logs the errors.
AmGenres ==
    /\ mpc = "am_genres"
    /\ IF Missing(environ.GENRES)
       THEN UNCHANGED effects
       ELSE \E inserted \in 0..1 :
                effects' = [effects EXCEPT !.writes = @ + inserted]
    /\ mpc' = "am_create"
    /\ UNCHANGED <<environ, au_mangas, au_results, au_summary, exit_code>>
    /\ MainFrame

\* create_manga with the slug and title as read: the select, then the
\* update of the row found or the insert of a new row. The store may raise
\* at any of them (whether it takes a row without slug or title is the
\* schema's matter); main does not catch it and the script exits 1.
AmCreateManga ==
    /\ mpc = "am_create"
    /\ \E accepted \in BOOLEAN :
        IF accepted
        THEN /\ effects' = [effects EXCEPT !.writes = @ + 1]
             /\ mpc' = "am_list"
             /\ UNCHANGED exit_code
        ELSE Exits(1) /\ UNCHANGED effects
    /\ UNCHANGED <<environ, au_mangas, au_results, au_summary>>
    /\ MainFrame

\* setup_driver, scrape_chapter_list on the page of the slug: no chapter,
\* sys.exit(1); else the loop over the chapters and the end of main.
AmListChapters ==
    /\ mpc = "am_list"
    /\ \E found \in BOOLEAN, saved \in 0..1 :
        IF found
        THEN /\ effects' = [writes |-> effects.writes + saved,
                            fetches |-> effects.fetches + 2]
             /\ Exits(0)
        ELSE /\ effects' = [effects EXCEPT !.fetches = @ + 1]
             /\ Exits(1)
    /\ UNCHANGED <<environ, au_mangas, au_results, au_summary>>
    /\ MainFrame

MainNext ==
    \/ AuImport \/ AuGetMangas \/ AuProcessManga \/ AuSummary
    \/ WfMainConfig \/ WfMainDispatch
    \/ AmMainConfig \/ AmGenres \/ AmCreateManga \/ AmListChapters

SpecMain == MainInit /\ [][MainNext]_vars

\* A value the program requires is missing.
RequiredMissing ==
    \/ /\ environ.program = "auto_updater"
       /\ Missing(environ.SUPABASE_URL) \/ Missing(environ.SUPABASE_KEY)
    \/ /\ environ.program = "scraper_workflow"
       /\ Missing(environ.MANGA_URL) \/ Missing(environ.OPERATION)
    \/ /\ environ.program = "add_manga_scraper"
       /\ \/ Missing(environ.SUPABASE_URL) \/ Missing(environ.SUPABASE_KEY)
          \/ Missing(environ.MANGA_SLUG) \/ Missing(environ.MANGA_TITLE)

\* C25: when a required credential or identifier is missing (SUPABASE_URL
\* or SUPABASE_KEY, MANGA_URL or OPERATION, the slug or the title of
\* add_manga_scraper), the process goes from its configuration straight to
\* an exit with a failure status: no store write and no source fetch is
\* made.
C25_MissingConfigurationAbortsBeforeWork ==
    RequiredMissing =>
        /\ mpc \in {"config", "exited"}
        /\ effects = NoEffects
        /\ (mpc = "exited" => exit_code = 1)

\* C30: auto_updater.main processes the mangas the store returned once
\* each, in the order returned: the i-th result is that of the i-th manga;
\* a manga whose processing raised has a 'failed' result with a reason and
\* the mangas after it have their results too; at the summary there is one
\* result per manga and the counts of up_to_date, updated and failed add up
\* to the number of mangas processed.
C30_EveryMangaProcessedOnce ==
    /\ Len(au_results) <= Len(au_mangas)
    /\ \A i \in DOMAIN au_results :
        /\ au_results[i].manga = au_mangas[i].title
        /\ au_results[i].status \in {"up_to_date", "updated", "failed"}
        /\ au_results[i].status = "failed" => au_results[i].reason # "none"
    /\ (mpc = "exited" /\ au_mangas # <<>>) =>
        /\ Len(au_results) = Len(au_mangas)
        /\ au_summary.processed = Len(au_mangas)
        /\ au_summary.up_to_date + au_summary.updated + au_summary.failed
             = au_summary.processed

\* The processing of the first of two mangas raised, the second was updated.
C30_Witness ==
    /\ mpc = "exited"
    /\ Len(au_mangas) = 2
    /\ au_results[1].status = "failed"
    /\ au_results[1].reason = "str(e)"
    /\ au_results[2].status = "updated"
    /\ au_summary.failed = 1

====
